---------------------------- MODULE Spec2Model ----------------------------
(***************************************************************************)
(* A model of the xoverlay engine: geometry resolution of the overlay      *)
(* window (drawable/window.rs), the resize-driven rescaling of the queued  *)
(* shapes and the two-pass render pipeline (overlay.rs), the translation   *)
(* of raw server notifications (event.rs) and the event loop (overlay.rs). *)
(*                                                                         *)
(* f32 values are modelled as exact rationals <<n, d>>.  The inputs the    *)
(* specifications enumerate are dyadic fractions and extents whose ratios  *)
(* are powers of two, on which f32 multiplication, division and addition   *)
(* are exact, so the rational results are the f32 results on these inputs. *)
(***************************************************************************)
EXTENDS Integers, Sequences, FiniteSets, TLC

-----------------------------------------------------------------------------
(* Exact rationals standing for f32 values.                                *)

RECURSIVE Gcd(_, _)
Gcd(a, b) == IF b = 0 THEN a ELSE Gcd(b, a % b)

Abs(a) == IF a < 0 THEN -a ELSE a

\* The canonical form of n/d (d > 0 afterwards, lowest terms).
Rat(n, d) ==
    LET s == IF d < 0 THEN -1 ELSE 1
        g == Gcd(Abs(n), Abs(d))
    IN  <<(s * n) \div g, (s * d) \div g>>

RInt(i) == <<i, 1>>
RMul(a, b) == Rat(a[1] * b[1], a[2] * b[2])
RDiv(a, b) == Rat(a[1] * b[2], a[2] * b[1])
RAdd(a, b) == Rat(a[1] * b[2] + b[1] * a[2], a[2] * b[2])
RSub(a, b) == Rat(a[1] * b[2] - b[1] * a[2], a[2] * b[2])
RLt(a, b) == a[1] * b[2] < b[1] * a[2]
RGt(a, b) == RLt(b, a)
RLe(a, b) == ~RLt(b, a)

\* Truncation toward zero, as Rust's float-to-integer `as` cast truncates.
RTrunc(a) == IF a[1] >= 0 THEN a[1] \div a[2] ELSE -((-a[1]) \div a[2])

Clamp(v, lo, hi) == IF v < lo THEN lo ELSE IF v > hi THEN hi ELSE v

U16Max == 65535
I16Max == 32767
I16Min == -32768

\* `f as u16` and `f as i16`: truncate, then saturate to the target range.
AsU16(a) == Clamp(RTrunc(a), 0, U16Max)
AsI16(a) == Clamp(RTrunc(a), I16Min, I16Max)

Vec(x, y) == [x |-> x, y |-> y]

\* Vec2::hammard and Vec2::inv_hammard on f32 vectors.
hammard(a, b) == Vec(RMul(a.x, b.x), RMul(a.y, b.y))
\* inv_hammard multiplying where it divides.
inv_hammard_Mul(a, b) == Vec(RMul(a.x, b.x), RMul(a.y, b.y))
inv_hammard(a, b) == Vec(RDiv(a.x, b.x), RDiv(a.y, b.y))

\* Vec2<u16>::convert::<f32>()
convert(v) == Vec(RInt(v.x), RInt(v.y))


-----------------------------------------------------------------------------
(* Window ids.  Window::from adopts the parent; Window::new creates the    *)
(* overlay; OtherId is any other window of the server.                     *)

ParentId == "parent"
OverlayId == "overlay"
OtherId == "other"

\* Depth::from (color.rs:156-167): any value but 1, 8, 16, 24 is D32.
DepthFrom(d) == IF d \in {1, 8, 16, 24} THEN d ELSE 32

\* Mapping (drawable/window.rs:49-56)
FullScreen == [kind |-> "FullScreen"]
Pixels(pos, size) == [kind |-> "Pixels", pos |-> pos, size |-> size]
Percent(fpos, fsize) == [kind |-> "Percent", fpos |-> fpos, fsize |-> fsize]

\* u16 + u16: with overflow checks (debug profile) an overflowing sum
\* panics, without them (release profile) it wraps modulo 2^16.
U16AddOverflows(a, b) == a + b > U16Max
WrappingAddU16(a, b) == (a + b) % (U16Max + 1)

\* The bounds test of a Pixels mapping, the same expression in Window::new
\* and Window::refresh, with Rust's left-to-right short-circuit of `||`.
PixelsCheck(pos, size, psize, checks) ==
    IF pos.x < 0 \/ pos.y < 0 THEN "Invalid coordinates"
    ELSE IF U16AddOverflows(pos.x, size.x) /\ checks THEN "panic"
    ELSE IF WrappingAddU16(pos.x, size.x) > psize.x THEN "Invalid coordinates"
    ELSE IF U16AddOverflows(pos.y, size.y) /\ checks THEN "panic"
    ELSE IF WrappingAddU16(pos.y, size.y) > psize.y THEN "Invalid coordinates"
    ELSE "ok"

\* PercentCheck without its test of the y axis' sum.
PercentCheck_NoYSum(fpos, fsize) ==
    IF \/ RLt(fpos.x, RInt(0))
       \/ RLt(fpos.y, RInt(0))
       \/ RLt(fsize.x, RInt(0))
       \/ RLt(fsize.y, RInt(0))
       \/ RGt(RAdd(fpos.x, fsize.x), RInt(1))
    THEN "Invalid percentages"
    ELSE "ok"

\* The validation of a Percent mapping, the same expression in Window::new
\* and Window::refresh.
PercentCheck(fpos, fsize) ==
    IF \/ RLt(fpos.x, RInt(0))
       \/ RLt(fpos.y, RInt(0))
       \/ RLt(fsize.x, RInt(0))
       \/ RLt(fsize.y, RInt(0))
       \/ RGt(RAdd(fpos.x, fsize.x), RInt(1))
       \/ RGt(RAdd(fpos.y, fsize.y), RInt(1))
    THEN "Invalid percentages"
    ELSE "ok"

\* The geometry a valid Percent mapping resolves to.
PercentGeometry(fpos, fsize, psize) ==
    [pos  |-> Vec(AsI16(RMul(RInt(psize.x), fpos.x)),
                  AsI16(RMul(RInt(psize.y), fpos.y))),
     size |-> Vec(AsU16(RMul(RInt(psize.x), fsize.x)),
                  AsU16(RMul(RInt(psize.y), fsize.y)))]

NoGeometry == [pos |-> Vec(0, 0), size |-> Vec(0, 0)]

\* The (x, y, width, height) block of Window::new: [status, pos, size].
\* status is "ok", the error message, or "panic".
ResolveNew(mapping, psize, checks) ==
    CASE mapping.kind = "FullScreen" ->
            [status |-> "ok", pos |-> Vec(0, 0), size |-> psize]
      [] mapping.kind = "Pixels" ->
            LET c == PixelsCheck(mapping.pos, mapping.size, psize, checks)
            IN  IF c = "ok"
                THEN [status |-> "ok", pos |-> mapping.pos, size |-> mapping.size]
                ELSE [status |-> c] @@ NoGeometry
      [] mapping.kind = "Percent" ->
            LET c == PercentCheck(mapping.fpos, mapping.fsize)
            IN  IF c = "ok"
                THEN [status |-> "ok"]
                     @@ PercentGeometry(mapping.fpos, mapping.fsize, psize)
                ELSE [status |-> c] @@ NoGeometry

\* A request sent to the server is the record [req, pass, shape, value]:
\* pass is the part of the program sending it ("window", or the pass of
\* Overlay::draw), shape the index in the render queue of the shape drawn
\* (0 if none), value the pixel value the request carries (for a draw, the
\* foreground the graphics context holds when the shape is drawn; <<>> if
\* none).
Req(req, pass, shape, value) ==
    [req |-> req, pass |-> pass, shape |-> shape, value |-> value]

\* Window::new: resolve, then create_window and map_window.
\* [status, window, requests]; no window and no request on a failed resolution.
NoWindow ==
    [id |-> "none", depth |-> 32, pos |-> Vec(0, 0), size |-> Vec(0, 0),
     mapping |-> FullScreen]

\* Window::new creating and mapping its window before the geometry's
\* validation is looked at.
WindowCreate_Eager(par, mapping, r) ==
    [status   |-> r.status,
     window   |-> IF r.status = "ok"
                  THEN [id |-> OverlayId, depth |-> DepthFrom(par.depth),
                        pos |-> r.pos, size |-> r.size, mapping |-> mapping]
                  ELSE NoWindow,
     requests |-> << Req("create_window", "window", 0, <<>>),
                    Req("map_window", "window", 0, <<>>) >>]

\* The rest of Window::new once the geometry r is resolved.
WindowCreate(par, mapping, r) ==
    IF r.status = "ok"
    THEN [status   |-> "ok",
          window   |-> [id |-> OverlayId, depth |-> DepthFrom(par.depth),
                        pos |-> r.pos, size |-> r.size, mapping |-> mapping],
          requests |-> << Req("create_window", "window", 0, <<>>),
                         Req("map_window", "window", 0, <<>>) >>]
    ELSE [status |-> r.status, window |-> NoWindow, requests |-> <<>>]

WindowNew(par, mapping, checks) ==
    WindowCreate(par, mapping, ResolveNew(mapping, par.size, checks))

\* ResolveRefresh leaving a FullScreen window with the geometry it had.
ResolveRefresh_Stale(win, psize, checks) ==
    IF win.mapping.kind = "FullScreen"
    THEN [status |-> "ok", pos |-> win.pos, size |-> win.size]
    ELSE ResolveNew(win.mapping, psize, checks)

\* The match of Window::refresh(conn, Some(parent)): [status, pos, size].
ResolveRefresh(win, psize, checks) ==
    CASE win.mapping.kind = "FullScreen" ->
            [status |-> "ok", pos |-> Vec(0, 0), size |-> psize]
      [] win.mapping.kind = "Pixels" ->
            LET c == PixelsCheck(win.mapping.pos, win.mapping.size, psize, checks)
            IN  IF c = "ok"
                THEN [status |-> "ok", pos |-> win.mapping.pos,
                      size |-> win.mapping.size]
                ELSE [status |-> c, pos |-> win.pos, size |-> win.size]
      [] win.mapping.kind = "Percent" ->
            LET c == PercentCheck(win.mapping.fpos, win.mapping.fsize)
            IN  IF c = "ok"
                THEN [status |-> "ok"]
                     @@ PercentGeometry(win.mapping.fpos, win.mapping.fsize, psize)
                ELSE [status |-> c, pos |-> win.pos, size |-> win.size]

\* Window::refresh(conn, Some(parent)): the window updated in place and one
\* configure_window request; on a failed resolution neither.
WindowConfigure(win, r) ==
    IF r.status = "ok"
    THEN [status   |-> "ok",
          window   |-> [win EXCEPT !.pos = r.pos, !.size = r.size],
          requests |-> << Req("configure_window", "window", 0, <<>>) >>]
    ELSE [status |-> r.status, window |-> win, requests |-> <<>>]

WindowRefresh(win, par, checks) ==
    WindowConfigure(win, ResolveRefresh(win, par.size, checks))

\* Window::from: the adopted parent with the geometry the server reports.
WindowFrom(id, depth, size) ==
    [id |-> id, depth |-> DepthFrom(depth), pos |-> Vec(0, 0), size |-> size,
     mapping |-> FullScreen]

-----------------------------------------------------------------------------
(* Overlay::refresh and the resize policies (overlay.rs:563-625).          *)

ResizePolicies == {"KeepAspectRatio", "KeepWidth", "KeepHeight", "KeepBoth"}

\* The body of the policy's loop for one shape.
Rescale(shape, policy, previous_size, new_size) ==
    CASE policy = "KeepAspectRatio" -> shape
      [] policy = "KeepWidth" ->
            [shape EXCEPT
                !.size = Vec(RDiv(RMul(shape.size.x, RInt(previous_size.x)),
                                  RInt(new_size.x)),
                             shape.size.y),
                !.position = Vec(RDiv(RMul(shape.position.x, RInt(previous_size.x)),
                                      RInt(new_size.x)),
                                 shape.position.y)]
      [] policy = "KeepHeight" ->
            [shape EXCEPT
                !.size = Vec(shape.size.x,
                             RDiv(RMul(shape.size.y, RInt(previous_size.y)),
                                  RInt(new_size.y))),
                !.position = Vec(shape.position.x,
                                 RDiv(RMul(shape.position.y, RInt(previous_size.y)),
                                      RInt(new_size.y)))]
      [] policy = "KeepBoth" ->
            [shape EXCEPT
                !.size = inv_hammard(hammard(shape.size, convert(previous_size)),
                                     convert(new_size)),
                !.position = inv_hammard(hammard(shape.position,
                                                 convert(previous_size)),
                                         convert(new_size))]

\* Overlay::refresh(new_size): [status, parent, window, render_queue, requests].
\* The rest of Overlay::refresh once self.window.refresh has returned r:
\* its `?`, then the policy's loop over the queue.  par is the parent after
\* resize_event, previous_size the overlay's size before the refresh.
OverlayRescale(par, queue, policy, previous_size, new_size, r) ==
    IF r.status # "ok"
    THEN [status |-> r.status, parent |-> par, window |-> r.window,
          render_queue |-> queue, requests |-> r.requests]
    ELSE [status |-> "ok", parent |-> par, window |-> r.window,
          render_queue |->
              [i \in DOMAIN queue |->
                  Rescale(queue[i], policy, previous_size, new_size)],
          requests |-> r.requests]

OverlayRefresh(par, win, queue, policy, new_size, checks) ==
    IF new_size = win.size
    THEN [status |-> "ok", parent |-> par, window |-> win,
          render_queue |-> queue, requests |-> <<>>]
    ELSE OverlayRescale([par EXCEPT !.size = new_size], queue, policy,
                        win.size, new_size,
                        WindowRefresh(win, [par EXCEPT !.size = new_size],
                                      checks))

-----------------------------------------------------------------------------
(* Color (color.rs).  A u32 pixel value is the tuple of its four bytes,    *)
(* most significant first: <<b3, b2, b1, b0>>.                             *)

Named(tag) == [tag |-> tag]
RGB(r, g, b) == [tag |-> "RGB", r |-> r, g |-> g, b |-> b]
RGBA(r, g, b, a) == [tag |-> "RGBA", r |-> r, g |-> g, b |-> b, a |-> a]
TRANSPARENT == Named("TRANSPARENT")
BLACK == Named("BLACK")

\* The 0xRRGGBB literals of Color::value (color.rs:290-311).
NamedHex ==
    [BLACK   |-> <<0, 0, 0>>,       BLUE    |-> <<0, 0, 255>>,
     BROWN   |-> <<165, 42, 42>>,   CYAN    |-> <<0, 255, 255>>,
     GRAY    |-> <<128, 128, 128>>, GREEN   |-> <<0, 128, 0>>,
     INDIGO  |-> <<75, 0, 130>>,    LIME    |-> <<0, 255, 0>>,
     MAGENTA |-> <<255, 0, 255>>,   NAVY    |-> <<0, 0, 128>>,
     ORANGE  |-> <<255, 165, 0>>,   PINK    |-> <<255, 192, 203>>,
     PURPLE  |-> <<128, 0, 128>>,   RED     |-> <<255, 0, 0>>,
     SILVER  |-> <<192, 192, 192>>, WHITE   |-> <<255, 255, 255>>,
     YELLOW  |-> <<255, 255, 0>>]

\* The bytes of a value below 2^16.
Bytes16(v) == <<0, 0, v \div 256, v % 256>>

to_rgba(h) == <<255, h[1], h[2], h[3]>>
to_rgb(h) == <<0, h[1], h[2], h[3]>>
to_16bit(h) ==
    Bytes16((h[1] \div 8) * 1024 + (h[2] \div 8) * 32 + (h[3] \div 8))
to_8bit(h) == <<0, 0, 0, ((h[1] + h[2] + h[3]) \div 3) % 256>>
to_1bit(h) == <<0, 0, 0, IF h[1] + h[2] + h[3] > 0 THEN 1 ELSE 0>>

for_depth(h, depth) ==
    CASE depth = 32 -> to_rgba(h)
      [] depth = 24 -> to_rgb(h)
      [] depth = 16 -> to_16bit(h)
      [] depth = 8  -> to_8bit(h)
      [] depth = 1  -> to_1bit(h)

\* Color::value(depth)
ColorValue(c, depth) ==
    CASE c.tag = "RGB" -> <<0, c.r, c.g, c.b>>
      [] c.tag = "RGBA" -> <<c.a, c.r, c.g, c.b>>
      [] c.tag = "TRANSPARENT" -> <<0, 0, 0, 0>>
      [] OTHER -> for_depth(NamedHex[c.tag], depth)

-----------------------------------------------------------------------------
(* Shapes (shape/rectangle.rs, shape/coord.rs).  A shape is the record     *)
(* [anchor, position, size, forground, background, filled]; position and   *)
(* size are fractions of the drawable's extent.                            *)

Rectangle(anchor, position, size, forground, background, filled) ==
    [anchor |-> anchor, position |-> position, size |-> size,
     forground |-> forground, background |-> background, filled |-> filled]

\* Rectangle::fill: the background is the foreground colour.
RectangleFill(anchor, position, size, color) ==
    Rectangle(anchor, position, size, color, color, TRUE)

Half(a) == RDiv(a, RInt(2))

\* Anchor::delta(width, height)
AnchorDelta(anchor, w, h) ==
    CASE anchor = "NorthWest" -> Vec(RInt(0), RInt(0))
      [] anchor = "North"     -> Vec(Half(w), RInt(0))
      [] anchor = "NorthEast" -> Vec(w, RInt(0))
      [] anchor = "East"      -> Vec(w, Half(h))
      [] anchor = "SouthEast" -> Vec(w, h)
      [] anchor = "South"     -> Vec(Half(w), h)
      [] anchor = "SouthWest" -> Vec(RInt(0), h)
      [] anchor = "West"      -> Vec(RInt(0), Half(h))
      [] anchor = "Center"    -> Vec(Half(w), Half(h))

\* CoordExt::top_left
top_left(position, anchor, size) ==
    LET d == AnchorDelta(anchor, size.x, size.y)
    IN  Vec(RSub(position.x, d.x), RSub(position.y, d.y))

\* CoordExt::to_real_coord and SizeExt::to_real_size
to_real(v, extent) == hammard(v, convert(extent))

\* The XRectangle of Rectangle::draw on a drawable of the given extent.
XRect(shape, extent) ==
    LET coord == to_real(top_left(shape.position, shape.anchor, shape.size), extent)
        size  == to_real(shape.size, extent)
    IN  [x |-> AsI16(coord.x), y |-> AsI16(coord.y),
         width |-> AsU16(size.x), height |-> AsU16(size.y)]

\* The pixels a draw of a shape writes, given its XRectangle r:
\* poly_fill_rectangle fills [x, x+width) x [y, y+height), poly_rectangle
\* strokes the outline whose corners are (x, y) and (x+width, y+height).
Writes(r, filled, px, py) ==
    IF filled
    THEN /\ r.x <= px /\ px < r.x + r.width
         /\ r.y <= py /\ py < r.y + r.height
    ELSE \/ /\ px \in {r.x, r.x + r.width}
            /\ r.y <= py /\ py <= r.y + r.height
         \/ /\ py \in {r.y, r.y + r.height}
            /\ r.x <= px /\ px <= r.x + r.width

\* The drawable is observed at GridN x GridN sample pixels.
GridN == 2
Cells == (0 .. GridN - 1) \X (0 .. GridN - 1)
SampleX(c, extent) == (c[1] * extent.x) \div GridN
SampleY(c, extent) == (c[2] * extent.y) \div GridN

\* The XRectangles of the shapes of a queue, and whether the draw of shape i
\* writes the sample pixel c.
XRects(queue, extent) == [i \in DOMAIN queue |-> XRect(queue[i], extent)]
Covers(queue, rects, i, extent, c) ==
    Writes(rects[i], queue[i].filled, SampleX(c, extent), SampleY(c, extent))

-----------------------------------------------------------------------------
(* Overlay::draw (overlay.rs:327-472).  Its requests have pass "mask" or   *)
(* "color".                                                                *)

\* A graphics context created without a foreground holds the protocol's
\* default foreground, pixel 0.
GcDefault == <<0, 0, 0, 0>>

\* Mask pass, overlay.rs:382-398: the values given to the depth-1 context.
MaskForeground(shape) ==
    IF shape.forground = TRANSPARENT
    THEN ColorValue(BLACK, 1)
    ELSE ColorValue(shape.forground, 1)

MaskBackground(shape) ==
    IF shape.background = TRANSPARENT
    THEN ColorValue(BLACK, 1)
    ELSE ColorValue(shape.background, 1)

\* Color pass, overlay.rs:434-448: the foreground the context holds when
\* shape i is drawn; a TRANSPARENT foreground leaves the context as it was.
RECURSIVE ColorForeground(_, _, _)
ColorForeground(queue, i, depth) ==
    IF i = 0 THEN GcDefault
    ELSE IF queue[i].forground # TRANSPARENT
         THEN ColorValue(queue[i].forground, depth)
         ELSE ColorForeground(queue, i - 1, depth)

DrawRequest(shape) ==
    IF shape.filled THEN "poly_fill_rectangle" ELSE "poly_rectangle"

\* The requests of the mask pass for shapes i .. Len(queue).
RECURSIVE MaskPass(_, _)
MaskPass(queue, i) ==
    IF i > Len(queue) THEN <<>>
    ELSE << Req("set_foreground", "mask", i, MaskForeground(queue[i])),
            Req("set_background", "mask", i, MaskBackground(queue[i])),
            Req(DrawRequest(queue[i]), "mask", i, MaskForeground(queue[i])) >>
         \o MaskPass(queue, i + 1)

\* The requests of the color pass for shapes i .. Len(queue).
RECURSIVE ColorPass(_, _, _)
ColorPass(queue, i, depth) ==
    IF i > Len(queue) THEN <<>>
    ELSE (IF queue[i].forground # TRANSPARENT
          THEN << Req("set_foreground", "color", i,
                      ColorValue(queue[i].forground, depth)) >>
          ELSE <<>>)
         \o (IF queue[i].background # TRANSPARENT
             THEN << Req("set_background", "color", i,
                         ColorValue(queue[i].background, depth)) >>
             ELSE <<>>)
         \o << Req(DrawRequest(queue[i]), "color", i,
                   ColorForeground(queue, i, depth)) >>
         \o ColorPass(queue, i + 1, depth)

\* The requests of a draw none of which fails, in the order they are sent.
DrawPlan(queue, depth) ==
    << Req("create_pixmap", "mask", 0, <<>>),
       Req("create_gc", "mask", 0, <<>>) >>
    \o MaskPass(queue, 1)
    \o << Req("shape_mask", "mask", 0, <<>>),
          Req("free_pixmap", "mask", 0, <<>>),
          Req("create_pixmap", "color", 0, <<>>),
          Req("create_gc", "color", 0, <<>>) >>
    \o ColorPass(queue, 1, depth)
    \o << Req("copy_area", "color", 0, <<>>),
          Req("free_pixmap", "color", 0, <<>>),
          Req("flush", "color", 0, <<>>) >>

CountOf(reqs, req) == Cardinality({k \in DOMAIN reqs : reqs[k].req = req})

Has(reqs, req, pass) ==
    \E k \in DOMAIN reqs : reqs[k].req = req /\ reqs[k].pass = pass

\* Graphics contexts that send nothing when dropped.
GcDrops_None(reqs) == <<>>

\* The graphics contexts are GcontextWrapper values: when draw returns, by
\* either path, each one created is dropped, the later one first, and its
\* drop sends free_gc.
GcDrops(reqs) ==
    (IF Has(reqs, "create_gc", "color")
     THEN << Req("free_gc", "color", 0, <<>>) >> ELSE <<>>)
    \o (IF Has(reqs, "create_gc", "mask")
        THEN << Req("free_gc", "mask", 0, <<>>) >> ELSE <<>>)

IsDraw(r) == r.req \in {"poly_fill_rectangle", "poly_rectangle"}

\* What the first k requests have written, in the given pass, at a sample
\* pixel of the pass's pixmap: the value of the last draw covering it, or
\* <<>> where no draw wrote (a new pixmap's contents are undefined).
RECURSIVE Written(_, _, _, _, _, _, _)
Written(reqs, k, pass, queue, rects, extent, c) ==
    IF k = 0 THEN <<>>
    ELSE IF /\ IsDraw(reqs[k])
            /\ reqs[k].pass = pass
            /\ Covers(queue, rects, reqs[k].shape, extent, c)
         THEN reqs[k].value
         ELSE Written(reqs, k - 1, pass, queue, rects, extent, c)

\* A depth-1 drawable keeps the least significant bit of a pixel value.
Bit(v) == IF v = <<>> THEN -1 ELSE v[4] % 2

\* The state a draw leaves when the requests it sent are `sent`:
\* [status, requests, pixmaps, mask, screen].  requests are those sent,
\* pixmaps the number created and not freed, mask the bounding shape set
\* (a function of Cells to 0, 1, or -1 for undefined; <<>> if none was
\* set), screen the pixels copied to the window (<<>> if none were).
DrawSent(queue, win, status, sent, rects) ==
    [status   |-> status,
     requests |-> sent \o GcDrops(sent),
     pixmaps  |-> CountOf(sent, "create_pixmap") - CountOf(sent, "free_pixmap"),
     mask     |-> IF Has(sent, "shape_mask", "mask")
                  THEN [c \in Cells |->
                           Bit(Written(sent, Len(sent), "mask", queue, rects,
                                       win.size, c))]
                  ELSE <<>>,
     screen   |-> IF Has(sent, "copy_area", "color")
                  THEN [c \in Cells |->
                           Written(sent, Len(sent), "color", queue, rects,
                                   win.size, c)]
                  ELSE <<>>]

\* The requests of the plan sent when request number fail_at fails.
Sent(plan, fail_at) ==
    IF fail_at = 0 THEN plan ELSE SubSeq(plan, 1, fail_at - 1)

\* Overlay::draw when request number fail_at fails (0: none fails).
Draw(queue, win, fail_at) ==
    CHOOSE r \in {DrawSent(queue, win,
                           IF fail_at = 0 THEN "ok" ELSE "request failed",
                           sent, rects) :
                      sent \in {Sent(DrawPlan(queue, win.depth), fail_at)},
                      rects \in {XRects(queue, win.size)}} : TRUE

-----------------------------------------------------------------------------
(* Events (event.rs).  An event is a record with a type field; a raw       *)
(* server notification is a record with an x field.                        *)

ParentResize(size) == [type |-> "ParentResize", size |-> size]
MousePress(button, coord) ==
    [type |-> "MousePress", button |-> button, coord |-> coord]
MouseMotion(coord) == [type |-> "MouseMotion", coord |-> coord]
\* A key press built as the KeyRelease variant.
KeyPress_Release(key) == [type |-> "KeyRelease", key |-> key]
KeyPress(key) == [type |-> "KeyPress", key |-> key]
KeyRelease(key) == [type |-> "KeyRelease", key |-> key]
Redraw == [type |-> "Redraw"]
StopEventLoop == [type |-> "StopEventLoop"]
Nothing == [type |-> "Nothing"]
Unkown == [type |-> "Unkown"]

DB_SIZE == 9

debounce_table_index(e) ==
    CASE e.type = "ParentResize"  -> 0
      [] e.type = "MousePress"    -> 1
      [] e.type = "MouseMotion"   -> 2
      [] e.type = "KeyPress"      -> 3
      [] e.type = "KeyRelease"    -> 4
      [] e.type = "Redraw"        -> 5
      [] e.type = "StopEventLoop" -> 6
      [] e.type = "Nothing"       -> 7
      [] e.type = "Unkown"        -> 8

\* Milliseconds.
DebounceRedraw == 25

\* Every variant throttled like Redraw.
debounce_table_timing_All(e) == DebounceRedraw

debounce_table_timing(e) == IF e.type = "Redraw" THEN DebounceRedraw ELSE 0

\* Event::gen_debounce_table: every slot holds the instant of the call.
gen_debounce_table(t) == [i \in 0 .. DB_SIZE - 1 |-> t]

\* Event::is_debounce at instant t: TRUE when the event is dropped.
is_debounce(e, table, t) ==
    t - table[debounce_table_index(e)] < debounce_table_timing(e)

\* is_debounce never recording the instant of an event it lets through.
debounced_table_Stale(e, table, t) == table

\* is_debounce recording the instant of an accepted event in every slot.
debounced_table_All(e, table, t) ==
    IF is_debounce(e, table, t)
    THEN table
    ELSE [i \in DOMAIN table |-> t]

\* The table Event::is_debounce leaves behind.
debounced_table(e, table, t) ==
    IF is_debounce(e, table, t)
    THEN table
    ELSE [table EXCEPT ![debounce_table_index(e)] = t]

\* impl From<u8> for KeyRef (key.rs:29-39)
ARROW_UP == 111
ARROW_RIGHT == 114
ARROW_DOWN == 116
ARROW_LEFT == 113

KeyRefFrom(detail) ==
    CASE detail = ARROW_UP    -> "ArrowUp"
      [] detail = ARROW_RIGHT -> "ArrowRight"
      [] detail = ARROW_DOWN  -> "ArrowDown"
      [] detail = ARROW_LEFT  -> "ArrowLeft"
      [] OTHER                -> "Unkown"

\* `detail as u8` keeps the low eight bits of the u32.
AsU8(v) == v % 256

\* The button taken from the low eight bits of the code.
ButtonFrom_Low(detail) ==
    CASE detail % 256 = 1 -> "Left"
      [] detail % 256 = 2 -> "Middle"
      [] detail % 256 = 3 -> "Right"
      [] OTHER            -> "Unknown"

ButtonFrom(detail) ==
    CASE detail = 1 -> "Left"
      [] detail = 2 -> "Middle"
      [] detail = 3 -> "Right"
      [] OTHER      -> "Unknown"

\* Rust's `%` on i32: the remainder has the sign of the dividend.
Rem(a, b) == IF a >= 0 THEN a % b ELSE -((-a) % b)

\* has_focus taking a property without a value for the window's own id.
WindowHasFocus_Eager(win, active) ==
    CASE active = "error"  -> "error"
      [] active = "absent" -> "false"
      [] active = "empty"  -> "true"
      [] OTHER             -> IF active = win.id THEN "true" ELSE "false"

\* Window::has_focus (window.rs:429-450).  active is the state of the root's
\* _NET_ACTIVE_WINDOW property: a window id, "absent" (no such property, or
\* not in 32-bit format), "empty" (no value), or "error" (the atom or the
\* property request, or its reply, fails).  The result is "true", "false"
\* or "error".
WindowHasFocus(win, active) ==
    CASE active = "error"  -> "error"
      [] active = "absent" -> "false"
      [] active = "empty"  -> "false"
      [] OTHER             -> IF active = win.id THEN "true" ELSE "false"

\* Event::handle_event (event.rs:112-182): the event, or [type |-> "Err"].
Err == [type |-> "Err"]

\* The focus check without its return of Nothing.
Gated_Open(f, e) == IF f = "error" THEN Err ELSE e

\* `if !overlay.has_focus()? { return Ok(Self::Nothing); }` before the
\* event e is built; f is the result of has_focus.
Gated(f, e) ==
    IF f = "error" THEN Err
    ELSE IF f = "false" THEN Nothing
    ELSE e

TranslateEvent(xevent, par, win, mouse, active) ==
    CASE xevent.x = "XinputMotion" ->
            MouseMotion(Vec(Rat(Rem(xevent.event_x, U16Max), win.size.x),
                            Rat(Rem(xevent.event_y, U16Max), win.size.y)))
      [] xevent.x = "XinputRawKeyPress" ->
            Gated(WindowHasFocus(par, active),
                  KeyPress(KeyRefFrom(AsU8(xevent.detail))))
      [] xevent.x = "XinputRawButtonPress" ->
            Gated(WindowHasFocus(par, active),
                  MousePress(ButtonFrom(xevent.detail), mouse))
      [] xevent.x = "ConfigureNotify" ->
            IF xevent.window = par.id
               /\ Vec(xevent.width, xevent.height) # win.size
            THEN ParentResize(Vec(xevent.width, xevent.height))
            ELSE Unkown
      [] xevent.x = "MapNotify" -> Redraw
      [] xevent.x = "NoExposure" -> Redraw
      [] OTHER -> Unkown

-----------------------------------------------------------------------------
(* State.                                                                  *)

VARIABLES
    parent,           \* Overlay.parent: the adopted host window
    window,           \* Overlay.window: the overlay window
    render_queue,     \* Overlay.render_queue
    last_mouse_pos,   \* Overlay.last_mouse_pos
    debounce_table,   \* Overlay.debounce_table
    resize_policy,    \* Overlay.resize_policy
    now,              \* the monotonic clock, in milliseconds
    active_window,    \* the root's _NET_ACTIVE_WINDOW property at creation
    overflow_checks,  \* the build profile: TRUE if integer overflow panics
    pc,               \* where the program is
    event,            \* the event being dispatched or given to the callback
    chain,            \* follow-up events processed for the current raw event
    events_seen,      \* raw notifications retrieved so far
    op,               \* the last operation carried out
    arg,              \* its argument
    prev,             \* parent, window, queue, op, arg and outcome before the
                      \* last Window::new, Window::refresh or Overlay::refresh
    outcome,          \* its result: "ok", an error message, or "panic"
    requests,         \* the requests it sent to the server
    mask,             \* the overlay's bounding shape on the server
    screen,           \* the overlay's pixels on the server
    pixmaps,          \* pixmaps created and not freed
    destroys,         \* destroy_window requests sent for the overlay
    hist              \* what the claims need to remember of the run

overlayVars ==
    <<parent, window, render_queue, last_mouse_pos, debounce_table, resize_policy>>
envVars == <<now, active_window, overflow_checks>>
loopVars == <<pc, event, chain, events_seen>>
callVars == <<op, arg, prev, outcome, requests>>
serverVars == <<mask, screen, pixmaps, destroys>>
vars == <<overlayVars, envVars, loopVars, callVars, serverVars, hist>>

Snapshot ==
    [parent |-> parent, window |-> window, render_queue |-> render_queue,
     op |-> op, arg |-> arg, outcome |-> outcome]

NoSnapshot ==
    [parent |-> NoWindow, window |-> NoWindow, render_queue |-> <<>>,
     op |-> "none", arg |-> <<>>, outcome |-> "ok"]

Frac(n, d) == Rat(n, d)

\* The part of Init every specification shares.
InitCommon ==
    /\ last_mouse_pos = Vec(RInt(0), RInt(0))
    /\ now = 0
    /\ debounce_table = gen_debounce_table(0)
    /\ event = Nothing
    /\ chain = 0
    /\ events_seen = 0
    /\ op = "none"
    /\ arg = <<>>
    /\ prev = NoSnapshot
    /\ outcome = "ok"
    /\ requests = <<>>
    /\ mask = <<>>
    /\ screen = <<>>
    /\ pixmaps = 0
    /\ destroys = 0
    /\ hist = <<>>

-----------------------------------------------------------------------------
(* SpecResolve: geometry resolution.  Window::new on a parent extent and a *)
(* mapping drawn from bounded sets, then Window::refresh as the parent's   *)
(* extent changes.                                                         *)

Extents == {Vec(800, 600), Vec(1600, 600), Vec(400, 300), Vec(1920, 1080)}

PixelCoords == {-1, 0, 1, 400}
PixelSizes == {1, 400, 800, U16Max}
FracsIn == {Frac(-1, 4), Frac(0, 1), Frac(1, 2), Frac(1, 1)}

ResolveMappings ==
    {FullScreen}
    \cup {Pixels(Vec(x, y), Vec(w, h)) :
            x \in PixelCoords, y \in PixelCoords, w \in PixelSizes, h \in PixelSizes}
    \cup {Percent(Vec(fx, fy), Vec(fw, fh)) :
            fx \in FracsIn, fy \in FracsIn, fw \in FracsIn, fh \in FracsIn}

InitResolve ==
    /\ InitCommon
    /\ \E p \in Extents : parent = WindowFrom(ParentId, 24, p)
    /\ window = NoWindow
    /\ render_queue = <<>>
    /\ resize_policy = "KeepAspectRatio"
    /\ active_window = ParentId
    /\ overflow_checks \in BOOLEAN
    /\ pc = "new"

\* Window::new(conn, &parent, &mapping).  hist keeps what the match of
\* Window::refresh makes of the same mapping and extent.
New(m) ==
    /\ pc = "new"
    /\ \E r \in {WindowNew(parent, m, overflow_checks)} :
           /\ window' = r.window
           /\ outcome' = r.status
           /\ requests' = r.requests
           /\ pc' = IF r.status = "ok" THEN "created" ELSE "failed"
    /\ op' = "Window::new"
    /\ arg' = m
    /\ prev' = Snapshot
    /\ hist' = ResolveRefresh([NoWindow EXCEPT !.mapping = m], parent.size,
                              overflow_checks).status
    /\ UNCHANGED <<parent, render_queue, last_mouse_pos, debounce_table,
                   resize_policy, envVars, event, chain, events_seen, serverVars>>

\* parent.resize_event(p), then window.refresh(conn, Some(&parent)).
Refresh(p) ==
    /\ pc = "created"
    /\ \E r \in {WindowRefresh(window, [parent EXCEPT !.size = p],
                                 overflow_checks)} :
           /\ parent' = [parent EXCEPT !.size = p]
           /\ window' = r.window
           /\ outcome' = r.status
           /\ requests' = r.requests
    /\ op' = "Window::refresh"
    /\ arg' = p
    /\ prev' = Snapshot
    /\ UNCHANGED <<render_queue, last_mouse_pos, debounce_table, resize_policy,
                   envVars, loopVars, serverVars, hist>>

NextResolve ==
    \/ \E m \in ResolveMappings : New(m)
    \/ \E p \in Extents : Refresh(p)

SpecResolve == InitResolve /\ [][NextResolve]_vars

-----------------------------------------------------------------------------
(* Claims on geometry resolution, under SpecResolve.                       *)

Negative(f) == f[1] < 0
SumAboveOne(a, b) == a[1] * b[2] + b[1] * a[2] > a[2] * b[2]

\* A Percent mapping the spec calls invalid.
BadPercent(m) ==
    /\ m.kind = "Percent"
    /\ \/ SumAboveOne(m.fpos.x, m.fsize.x)
       \/ SumAboveOne(m.fpos.y, m.fsize.y)
       \/ Negative(m.fpos.x) \/ Negative(m.fpos.y)
       \/ Negative(m.fsize.x) \/ Negative(m.fsize.y)

OutOfParent(m, p) ==
    /\ m.kind = "Pixels"
    /\ \/ m.pos.x < 0
       \/ m.pos.y < 0
       \/ m.pos.x + m.size.x > p.x
       \/ m.pos.y + m.size.y > p.y

\* C10: a Pixels mapping whose bounding box is not contained in the parent
\* extent fails resolution with the invalid-coordinates error, at
\* Window::new and at Window::refresh; it never succeeds and never fails in
\* another way.
C10_OutOfParentRejected ==
    /\ (op = "Window::new" /\ OutOfParent(arg, parent.size)) =>
          outcome = "Invalid coordinates"
    /\ (op = "Window::refresh" /\ OutOfParent(window.mapping, parent.size)) =>
          outcome = "Invalid coordinates"

-----------------------------------------------------------------------------
(* SpecRefresh: Overlay::refresh.  An overlay built on an 800x600 parent    *)
(* with a mapping, a policy and a queue drawn from bounded sets, then       *)
(* refreshed as ParentResize events report new parent extents.              *)

MaxRefresh == 3

RefreshMappings ==
    {FullScreen,
     Pixels(Vec(0, 0), Vec(400, 300)),
     Pixels(Vec(0, 0), Vec(800, 600)),
     Percent(Vec(Frac(0, 1), Frac(0, 1)), Vec(Frac(1, 2), Frac(1, 2))),
     Percent(Vec(Frac(0, 1), Frac(0, 1)), Vec(Frac(1, 1), Frac(1, 1)))}

ShapeA ==
    RectangleFill("NorthWest", Vec(Frac(1, 2), Frac(1, 2)),
                  Vec(Frac(1, 4), Frac(1, 2)), Named("RED"))
ShapeB ==
    Rectangle("Center", Vec(Frac(1, 4), Frac(1, 4)),
              Vec(Frac(1, 2), Frac(0, 1)), Named("BLUE"), TRANSPARENT, FALSE)

RefreshQueues == {<<ShapeA>>, <<ShapeA, ShapeB>>}

InitRefresh ==
    /\ InitCommon
    /\ parent = WindowFrom(ParentId, 24, Vec(800, 600))
    /\ overflow_checks \in BOOLEAN
    /\ \E m \in RefreshMappings :
          window = WindowNew(parent, m, overflow_checks).window
    /\ render_queue \in RefreshQueues
    /\ resize_policy \in ResizePolicies
    /\ active_window = ParentId
    /\ pc = "running"

\* self.refresh(new_size), as handle_event calls it for ParentResize(new_size).
RefreshOverlay(new_size) ==
    /\ pc = "running"
    /\ events_seen < MaxRefresh
    /\ \E r \in {OverlayRefresh(parent, window, render_queue, resize_policy,
                                  new_size, overflow_checks)} :
           /\ parent' = r.parent
           /\ window' = r.window
           /\ render_queue' = r.render_queue
           /\ outcome' = r.status
           /\ requests' = r.requests
           /\ pc' = IF r.status = "ok" THEN "running" ELSE "error"
    /\ events_seen' = events_seen + 1
    /\ op' = "Overlay::refresh"
    /\ arg' = new_size
    /\ prev' = Snapshot
    /\ UNCHANGED <<last_mouse_pos, debounce_table, resize_policy, envVars,
                   event, chain, serverVars, hist>>

NextRefresh == \E p \in Extents : RefreshOverlay(p)

SpecRefresh == InitRefresh /\ [][NextRefresh]_vars

-----------------------------------------------------------------------------
(* Claims on Overlay::refresh, under SpecRefresh.                          *)

\* A shape's pixel position and pixel size on a drawable of the given
\* extent: its stored fractions times the extent, per axis.
PixelPos(shape, extent) == hammard(shape.position, convert(extent))
PixelSize(shape, extent) == hammard(shape.size, convert(extent))

\* The last operation was a refresh that changed the overlay's size.
Resized ==
    /\ op = "Overlay::refresh"
    /\ outcome = "ok"
    /\ window.size # prev.window.size

\* C6: under KeepBoth, for every mapping and every refresh that changes the
\* overlay's size, each queued shape's pixel position and pixel size are
\* the same after the refresh as before it.
C6_KeepBothPreservesPixels ==
    (Resized /\ resize_policy = "KeepBoth") =>
        \A i \in DOMAIN render_queue :
            /\ PixelPos(render_queue[i], window.size)
                 = PixelPos(prev.render_queue[i], prev.window.size)
            /\ PixelSize(render_queue[i], window.size)
                 = PixelSize(prev.render_queue[i], prev.window.size)

\* The last operation resized an overlay filling its parent from 800x600 to
\* 1600x600 under KeepBoth.
ResizedWider ==
    /\ Resized
    /\ resize_policy = "KeepBoth"
    /\ prev.parent.size = Vec(800, 600)
    /\ prev.window.size = Vec(800, 600)
    /\ parent.size = Vec(1600, 600)
    /\ window.size = Vec(1600, 600)

\* C7 as amended: under KeepBoth, after a resize from (800,600) to
\* (1600,600), each shape's stored size fraction on the x axis is half its
\* value before the resize, its y fraction is unchanged, and the pixel
\* extent it represents stays constant.
C7_FractionHalves ==
    ResizedWider =>
        \A i \in DOMAIN render_queue :
            /\ render_queue[i].size.x
                 = RDiv(prev.render_queue[i].size.x, RInt(2))
            /\ render_queue[i].size.y = prev.render_queue[i].size.y
            /\ PixelSize(render_queue[i], window.size)
                 = PixelSize(prev.render_queue[i], prev.window.size)

\* C7's case: such a resize has happened to a queue whose shapes have a
\* non-zero width.
C7_Witness ==
    /\ ResizedWider
    /\ \A i \in DOMAIN render_queue : prev.render_queue[i].size.x # RInt(0)
    /\ render_queue # <<>>

\* C7 as stated: the stored x fraction is double its value before the
\* resize while the pixel extent stays constant.
C7_FractionDoubles ==
    ResizedWider =>
        \A i \in DOMAIN render_queue :
            /\ render_queue[i].size.x
                 = RMul(prev.render_queue[i].size.x, RInt(2))
            /\ PixelSize(render_queue[i], window.size)
                 = PixelSize(prev.render_queue[i], prev.window.size)

\* C8: for every mapping and parent extent, a refresh that follows a
\* refresh with the same extent sends no request and leaves the parent,
\* the overlay window and every queued shape as they were.
C8_SecondRefreshNoChange ==
    (/\ op = "Overlay::refresh"
     /\ prev.op = "Overlay::refresh"
     /\ prev.outcome = "ok"
     /\ prev.arg = arg) =>
        /\ requests = <<>>
        /\ parent = prev.parent
        /\ window = prev.window
        /\ render_queue = prev.render_queue

-----------------------------------------------------------------------------
(* SpecDraw: the render queue and Overlay::draw.  Shapes drawn from a      *)
(* bounded set are added to the queue of an overlay filling an 800x600     *)
(* parent, and the queue is drawn; a draw may fail at one of its requests.  *)

MaxQueue == 2

\* Overlay::add_shape with the shape put in front of the queue.
add_shape_Front(queue, shape) == <<shape>> \o queue

\* Overlay::add_shape and Overlay::add_shapes.
add_shape(queue, shape) == Append(queue, shape)
add_shapes(queue, shapes) == queue \o shapes

DrawColors == {Named("RED"), Named("BLUE"), TRANSPARENT}

\* The colours of the filled rectangles: BLACK and an RGB value whose
\* least significant bit is 0 as well.
FillColors == DrawColors \cup {BLACK, RGB(0, 0, 2)}

\* A filled rectangle over the whole drawable and the outline of a
\* rectangle whose top left corner is the drawable's centre.
DrawShapes ==
    {RectangleFill("NorthWest", Vec(Frac(0, 1), Frac(0, 1)),
                   Vec(Frac(1, 1), Frac(1, 1)), c) : c \in FillColors}
    \cup {Rectangle("NorthWest", Vec(Frac(1, 2), Frac(1, 2)),
                    Vec(Frac(1, 4), Frac(1, 4)), c, TRANSPARENT, FALSE) :
            c \in DrawColors}

DrawDepths == {24, 32}

InitDraw ==
    /\ InitCommon
    /\ \E d \in DrawDepths :
          parent = WindowFrom(ParentId, d, Vec(800, 600))
    /\ overflow_checks = FALSE
    /\ window = WindowNew(parent, FullScreen, overflow_checks).window
    /\ render_queue = <<>>
    /\ resize_policy = "KeepAspectRatio"
    /\ active_window = ParentId
    /\ pc = "running"

\* overlay.add_shape(shape).  hist is the sequence of the shapes passed to
\* add_shape and add_shapes, in the order of the calls.
AddShape(shape) ==
    /\ pc = "running"
    /\ Len(render_queue) < MaxQueue
    /\ render_queue' = add_shape(render_queue, shape)
    /\ hist' = Append(hist, shape)
    /\ op' = "Overlay::add_shape"
    /\ arg' = shape
    /\ outcome' = "ok"
    /\ requests' = <<>>
    /\ UNCHANGED <<parent, window, last_mouse_pos, debounce_table, resize_policy,
                   envVars, loopVars, serverVars, prev>>

\* overlay.add_shapes(shapes)
AddShapes(shapes) ==
    /\ pc = "running"
    /\ Len(render_queue) + Len(shapes) <= MaxQueue
    /\ render_queue' = add_shapes(render_queue, shapes)
    /\ hist' = hist \o shapes
    /\ op' = "Overlay::add_shapes"
    /\ arg' = shapes
    /\ outcome' = "ok"
    /\ requests' = <<>>
    /\ UNCHANGED <<parent, window, last_mouse_pos, debounce_table, resize_policy,
                   envVars, loopVars, serverVars, prev>>

\* The requests of a draw at which the model lets the draw fail: one of each
\* part of Overlay::draw.
FailRequests ==
    {<<"create_pixmap", "mask">>, <<"poly_fill_rectangle", "mask">>,
     <<"create_gc", "color">>, <<"poly_rectangle", "color">>,
     <<"flush", "color">>}

NoFailure == <<"none", "none">>

\* The number of the first request of the kind f in a draw of the queue,
\* 0 if it has none.
RECURSIVE FirstRequest(_, _, _)
FirstRequest(plan, f, k) ==
    IF k > Len(plan) THEN 0
    ELSE IF plan[k].req = f[1] /\ plan[k].pass = f[2] THEN k
         ELSE FirstRequest(plan, f, k + 1)

\* The server's state after a draw whose result is r.
DrawEffect(r) ==
    [status   |-> r.status,
     requests |-> r.requests,
     pixmaps  |-> pixmaps + r.pixmaps,
     mask     |-> IF Has(r.requests, "shape_mask", "mask")
                  THEN r.mask ELSE mask,
     screen   |-> IF Has(r.requests, "copy_area", "color")
                  THEN r.screen ELSE screen]

\* Overlay::draw on the given queue and window when the first request of
\* the kind f fails: its result and the server's state after it.
DrawStep(queue, win, f) ==
    CHOOSE e \in {DrawEffect(r) :
                      r \in {Draw(queue, win,
                                  FirstRequest(DrawPlan(queue, win.depth), f, 1))}} :
        TRUE

\* overlay.draw(); the first request of the kind f fails (NoFailure: none
\* does).  An error is returned to the caller, which stops.
DrawCall(f) ==
    /\ pc = "running"
    /\ \E d \in {DrawStep(render_queue, window, f)} :
           /\ f # NoFailure => d.status = "request failed"
           /\ outcome' = d.status
           /\ requests' = d.requests
           /\ pixmaps' = d.pixmaps
           /\ mask' = d.mask
           /\ screen' = d.screen
           /\ pc' = IF d.status = "ok" THEN "running" ELSE "error"
    /\ op' = "Overlay::draw"
    /\ arg' = f
    /\ UNCHANGED <<overlayVars, envVars, event, chain, events_seen, destroys, hist,
                   prev>>

\* The rectangle Overlay::clear draws: Anchor::default() is NorthWest.
ClearRect ==
    RectangleFill("NorthWest", Vec(Frac(0, 1), Frac(0, 1)),
                  Vec(Frac(1, 1), Frac(1, 1)), TRANSPARENT)

\* clear_shapes leaving the queue as it is.
clear_shapes_Keep(queue) == queue

\* Overlay::clear_shapes: render_queue.clear().
clear_shapes(queue) == <<>>

\* The queue Overlay::clear draws.
ClearQueue(queue) == add_shape(clear_shapes(queue), ClearRect)

\* overlay.clear(): clear_shapes, add_shape(clear_rect), draw()?,
\* clear_shapes.  When the draw fails the error is returned before the
\* second clear_shapes.  hist restarts with the queue; arg keeps the number
\* of shapes queued before the call.
Clear(f) ==
    /\ pc = "running"
    /\ \E d \in {DrawStep(ClearQueue(render_queue), window, f)} :
           /\ f # NoFailure => d.status = "request failed"
           /\ outcome' = d.status
           /\ requests' = d.requests
           /\ pixmaps' = d.pixmaps
           /\ mask' = d.mask
           /\ screen' = d.screen
           /\ render_queue' = IF d.status = "ok"
                              THEN clear_shapes(ClearQueue(render_queue))
                              ELSE ClearQueue(render_queue)
           /\ pc' = IF d.status = "ok" THEN "running" ELSE "error"
    /\ hist' = render_queue'
    /\ op' = "Overlay::clear"
    /\ arg' = [failure |-> f, queued |-> Len(render_queue)]
    /\ UNCHANGED <<parent, window, last_mouse_pos, debounce_table, resize_policy,
                   envVars, event, chain, events_seen, destroys, prev>>

NextDraw ==
    \/ \E s \in DrawShapes : AddShape(s)
    \/ \E s \in DrawShapes, t \in DrawShapes : AddShapes(<<s, t>>)
    \/ \E f \in FailRequests \cup {NoFailure} : DrawCall(f)
    \/ \E f \in FailRequests \cup {NoFailure} : Clear(f)

SpecDraw == InitDraw /\ [][NextDraw]_vars

-----------------------------------------------------------------------------
(* Claims on the render queue and Overlay::draw, under SpecDraw.           *)

\* The last operation was a draw none of whose requests failed.
Drawn == op = "Overlay::draw" /\ outcome = "ok"

\* The numbers, in the order sent, of the shapes the given pass drew.
RECURSIVE DrawOrder(_, _, _)
DrawOrder(reqs, pass, k) ==
    IF k > Len(reqs) THEN <<>>
    ELSE (IF IsDraw(reqs[k]) /\ reqs[k].pass = pass
          THEN <<reqs[k].shape>> ELSE <<>>)
         \o DrawOrder(reqs, pass, k + 1)

\* Shape i of the queue covers the sample pixel c of the overlay, and no
\* later shape of the queue does.
LastOver(i, c) ==
    LET rects == XRects(render_queue, window.size)
    IN  /\ Covers(render_queue, rects, i, window.size, c)
        /\ \A k \in DOMAIN render_queue :
              k > i => ~Covers(render_queue, rects, k, window.size, c)

\* Shapes i then j of the queue have distinct opaque colors and overlap at
\* the sample pixel c, where j is the last shape drawn.
Overlap(i, j, c) ==
    /\ i < j
    /\ render_queue[i].forground # TRANSPARENT
    /\ render_queue[j].forground # TRANSPARENT
    /\ render_queue[i].forground # render_queue[j].forground
    /\ Covers(render_queue, XRects(render_queue, window.size), i, window.size, c)
    /\ LastOver(j, c)

\* C4: the render queue is the sequence of the shapes passed to add_shape
\* and add_shapes, in that order; the color pass draws the shapes in queue
\* order; and where shapes A then B with distinct opaque colors overlap,
\* the color on the overlay after the draw is B's and not A's.
C4_ZOrder ==
    /\ render_queue = hist
    /\ Drawn =>
          /\ DrawOrder(requests, "color", 1)
               = [i \in 1 .. Len(render_queue) |-> i]
          /\ \A i, j \in DOMAIN render_queue, c \in Cells :
                Overlap(i, j, c) =>
                    /\ screen[c] = ColorValue(render_queue[j].forground,
                                              window.depth)
                    /\ screen[c] # ColorValue(render_queue[i].forground,
                                              window.depth)

\* C4's case: a queue with two overlapping shapes of distinct opaque colors
\* has been drawn.
C4_Witness ==
    /\ Drawn
    /\ \E i, j \in DOMAIN render_queue, c \in Cells :
          /\ Overlap(i, j, c)
          /\ screen[c] = ColorValue(render_queue[j].forground, window.depth)

\* The draw requests of the given pass for shape i.
DrawsOf(i, pass) ==
    {k \in DOMAIN requests :
        /\ IsDraw(requests[k])
        /\ requests[k].pass = pass
        /\ requests[k].shape = i}

\* The queued shapes whose foreground is TRANSPARENT.
TransparentShapes ==
    {i \in DOMAIN render_queue : render_queue[i].forground = TRANSPARENT}

\* C5: for every queued shape whose foreground is TRANSPARENT, the mask
\* pass draws it with logical 0 and the color pass never draws it with an
\* opaque pixel (a pixel value other than 0).
C5_TransparentNeverDrawn ==
    Drawn =>
        \A i \in TransparentShapes :
            /\ \A k \in DrawsOf(i, "mask") : Bit(requests[k].value) = 0
            /\ \A k \in DrawsOf(i, "color") : requests[k].value = GcDefault

-----------------------------------------------------------------------------
(* Spec: Overlay::event_loop.  An overlay filling an 800x600 parent, with  *)
(* one queued shape, runs the loop: it draws once, then waits for          *)
(* notifications, translates them and dispatches the events, calling the   *)
(* handler, whose return value is an input, after each one that is not     *)
(* dropped.  Time passes while the loop waits.                             *)

MaxEvents == 2
MaxChain == 2
MaxTime == 50

\* Window::free: one destroy_window request.
WindowFree(win) == << Req("destroy_window", "window", 0, <<>>) >>

\* The arm of handle_event's match that never returns true.
Stops_Never(e) == FALSE

\* That arm taken for Nothing as well.
Stops_Nothing(e) == e.type \in {"StopEventLoop", "Nothing"}

\* The arm of handle_event's match that returns Ok(false), after which
\* event_loop leaves its loop.
Stops(e) == e.type = "StopEventLoop"

\* handle_event returning to the loop's wait without calling the handler.
BaseOn_Waiting(queue) ==
    [pc |-> "waiting", parent |-> parent, window |-> window,
     render_queue |-> queue, last_mouse_pos |-> last_mouse_pos,
     outcome |-> "ok", requests |-> <<>>,
     mask |-> mask, screen |-> screen, pixmaps |-> pixmaps,
     destroys |-> destroys, drew |-> FALSE]

\* handle_event's result when nothing has changed and the handler is to be
\* called.  drew: whether draw was invoked.
BaseOn(queue) ==
    [pc |-> "callback", parent |-> parent, window |-> window,
     render_queue |-> queue, last_mouse_pos |-> last_mouse_pos,
     outcome |-> "ok", requests |-> <<>>,
     mask |-> mask, screen |-> screen, pixmaps |-> pixmaps,
     destroys |-> destroys, drew |-> FALSE]

\* AfterDraw going on to the handler whatever the draw returned.
AfterDraw_Continue(b, d) ==
    [b EXCEPT !.pc = "callback",
              !.outcome = d.status,
              !.requests = b.requests \o d.requests,
              !.mask = d.mask, !.screen = d.screen,
              !.pixmaps = d.pixmaps, !.drew = TRUE]

\* AfterDraw freeing the overlay window when the draw failed.
AfterDraw_Freeing(b, d) ==
    [b EXCEPT !.pc = IF d.status = "ok" THEN "callback" ELSE "error",
              !.outcome = d.status,
              !.requests = IF d.status = "ok"
                           THEN b.requests \o d.requests
                           ELSE b.requests \o d.requests \o WindowFree(window),
              !.mask = d.mask, !.screen = d.screen,
              !.pixmaps = d.pixmaps, !.drew = TRUE,
              !.destroys = IF d.status = "ok" THEN @ ELSE @ + 1]

\* `self.draw()?` in handle_event: b before it, d the draw's effect.
AfterDraw(b, d) ==
    [b EXCEPT !.pc = IF d.status = "ok" THEN "callback" ELSE "error",
              !.outcome = d.status,
              !.requests = b.requests \o d.requests,
              !.mask = d.mask, !.screen = d.screen,
              !.pixmaps = d.pixmaps, !.drew = TRUE]

\* `self.refresh(size)?` in handle_event: r is the refresh's result.
AfterRefresh(r) ==
    [BaseOn(r.render_queue) EXCEPT !.pc = IF r.status = "ok" THEN "callback" ELSE "error",
                 !.outcome = r.status,
                 !.parent = r.parent,
                 !.window = r.window,
                 !.render_queue = r.render_queue,
                 !.requests = r.requests]

\* The refresh without the draw that follows it.
RefreshThenDraw_NoDraw(b, f) == b

\* `self.refresh(size)?.draw()?`
RefreshThenDraw(b, f) ==
    IF b.pc = "error" THEN b
    ELSE AfterDraw(b, DrawStep(b.render_queue, b.window, f))

\* The requests outside Overlay::draw at which the model lets the loop fail:
\* the configure_window of Window::refresh and the destroy_window of
\* Window::free.
ConfigureFailure == <<"configure_window", "window">>
FreeFailure == <<"destroy_window", "window">>

\* The outcomes of an operation one of whose requests failed.
FailureOutcomes ==
    {"request failed", "configure_window failed", "destroy_window failed"}

\* Overlay::refresh, of result r when no request fails, when the
\* configure_window request of Window::refresh fails: the parent's size and
\* the window's geometry are already assigned, the error leaves refresh
\* before the policy's loop, so the queue stays as it was.  A refresh that
\* sends no request is not affected.
RefreshFailing(r, queue) ==
    IF r.requests = <<>> THEN r
    ELSE [r EXCEPT !.status = "configure_window failed",
                   !.render_queue = queue]

\* self.refresh(size) in handle_event, on the given queue, when the first
\* request of kind f fails.
RefreshStep(queue, size, f) ==
    CHOOSE x \in {IF f = ConfigureFailure
                  THEN RefreshFailing(r, queue) ELSE r :
                     r \in {OverlayRefresh(parent, window, queue,
                                           resize_policy, size,
                                           overflow_checks)}} : TRUE

\* Overlay::handle_event(e, callback) up to its call of the callback (pc
\* "callback"), its return for a dropped event (pc "waiting"), its error
\* (pc "error"), or its return of Ok(false) followed by event_loop's
\* `self.free()?` (pc "stopped", or "error" when the destroy_window fails).
HandleEventOn(queue, e, f) ==
    IF is_debounce(e, debounce_table, now)
    THEN [BaseOn(queue) EXCEPT !.pc = "waiting", !.outcome = "debounced"]
    ELSE CASE e.type = "ParentResize" ->
                RefreshThenDraw(AfterRefresh(RefreshStep(queue, e.size, f)), f)
           [] e.type = "Redraw" ->
                AfterDraw(BaseOn(queue), DrawStep(queue, window, f))
           [] e.type = "MouseMotion" ->
                [BaseOn(queue) EXCEPT !.last_mouse_pos = e.coord]
           [] Stops(e) ->
                [BaseOn(queue) EXCEPT
                    !.pc = IF f = FreeFailure THEN "error" ELSE "stopped",
                    !.outcome = IF f = FreeFailure
                                THEN "destroy_window failed" ELSE "ok",
                    !.requests = WindowFree(window),
                    !.destroys = destroys
                        + CountOf(WindowFree(window), "destroy_window")]
           [] OTHER -> BaseOn(queue)

\* handle_event on the overlay's queue as it is.
HandleEvent(e, f) == HandleEventOn(render_queue, e, f)

\* The arms of handle_event that send the request f: only there can it fail.
FailureApplies(f, e) ==
    CASE f = NoFailure        -> TRUE
      [] f = ConfigureFailure -> e.type = "ParentResize"
      [] f = FreeFailure      -> e.type = "StopEventLoop"
      [] OTHER                -> e.type \in {"ParentResize", "Redraw"}

\* The state after HandleEvent(e, f); h is its result.
Handled(e, f, h) ==
    /\ f # NoFailure => h.outcome \in FailureOutcomes
    /\ event' = e
    /\ debounce_table' = debounced_table(e, debounce_table, now)
    /\ pc' = h.pc
    /\ parent' = h.parent
    /\ window' = h.window
    /\ render_queue' = h.render_queue
    /\ last_mouse_pos' = h.last_mouse_pos
    /\ outcome' = h.outcome
    /\ requests' = h.requests
    /\ mask' = h.mask
    /\ screen' = h.screen
    /\ pixmaps' = h.pixmaps
    /\ destroys' = h.destroys
    /\ hist' = IF e.type = "Redraw"
               THEN Append(hist, [t |-> now, drew |-> h.drew,
                                  raw |-> chain' = 0])
               ELSE hist


\* The handler returning None.
NoEvent == [type |-> "None"]

XEvents ==
    {[x |-> "MapNotify"],
     [x |-> "XinputRawKeyPress", detail |-> ARROW_UP],
     [x |-> "XinputRawButtonPress", detail |-> 1],
     [x |-> "XinputMotion", event_x |-> 400, event_y |-> 300],
     [x |-> "ConfigureNotify", window |-> ParentId,
      width |-> 1600, height |-> 600]}

FollowUps == {StopEventLoop, Redraw, Nothing}

ActiveWindows == {ParentId, OtherId, "absent", "empty", "error"}

LoopFailures == {NoFailure, <<"flush", "color">>, ConfigureFailure, FreeFailure}

Init ==
    /\ InitCommon
    /\ parent = WindowFrom(ParentId, 24, Vec(800, 600))
    /\ overflow_checks = FALSE
    /\ window = WindowNew(parent, FullScreen, overflow_checks).window
    /\ render_queue = <<ShapeA>>
    /\ resize_policy = "KeepBoth"
    /\ active_window = ParentId
    /\ pc = "start"

\* event_loop whose first draw is left out while the Redraw slot of the
\* debounce table is less than DebounceRedraw old.
Start_Debounced(f) ==
    /\ pc = "start"
    /\ f = NoFailure
    /\ pc' = "waiting"
    /\ op' = "Overlay::event_loop"
    /\ arg' = f
    /\ outcome' = "ok"
    /\ requests' = <<>>
    /\ UNCHANGED <<overlayVars, envVars, event, chain, events_seen, prev,
                   serverVars, hist>>

\* event_loop up to its loop: `self.draw()?`.
Start(f) ==
    /\ pc = "start"
    /\ \E d \in {DrawStep(render_queue, window, f)} :
           /\ f # NoFailure => d.status = "request failed"
           /\ outcome' = d.status
           /\ requests' = d.requests
           /\ mask' = d.mask
           /\ screen' = d.screen
           /\ pixmaps' = d.pixmaps
           /\ pc' = IF d.status = "ok" THEN "waiting" ELSE "error"
    /\ op' = "Overlay::event_loop"
    /\ arg' = f
    /\ UNCHANGED <<overlayVars, envVars, event, chain, events_seen, prev,
                   destroys, hist>>

\* The notifications whose translation reads the root's property.
ReadsFocus(xevent) == xevent.x \in {"XinputRawKeyPress", "XinputRawButtonPress"}

\* Event::wait(&self)? and self.handle_event(event, &mut callback)? up to
\* the handler: the notification xevent arrives, and a is the root's
\* property when has_focus reads it.
Wait(xevent, a, f) ==
    /\ pc = "waiting"
    /\ events_seen < MaxEvents
    /\ ~ReadsFocus(xevent) => a = active_window
    /\ events_seen' = events_seen + 1
    /\ chain' = 0
    /\ op' = "Event::wait"
    /\ arg' = <<xevent, a>>
    /\ \E e \in {TranslateEvent(xevent, parent, window, last_mouse_pos, a)} :
           IF e = Err
           THEN /\ f = NoFailure
                /\ pc' = "error"
                /\ outcome' = "has_focus failed"
                /\ requests' = <<>>
                /\ UNCHANGED <<overlayVars, event, serverVars, hist>>
           ELSE /\ FailureApplies(f, e)
                /\ \E h \in {HandleEvent(e, f)} : Handled(e, f, h)
                /\ UNCHANGED resize_policy
    /\ UNCHANGED <<envVars, prev>>

\* Event::wait(&self)? when conn.wait_for_event() returns an error: nothing
\* is translated or handled.
WaitError == [x |-> "ConnectionError"]

WaitFails ==
    /\ pc = "waiting"
    /\ events_seen < MaxEvents
    /\ events_seen' = events_seen + 1
    /\ op' = "Event::wait"
    /\ arg' = <<WaitError, active_window>>
    /\ pc' = "error"
    /\ outcome' = "wait_for_event failed"
    /\ requests' = <<>>
    /\ UNCHANGED <<overlayVars, envVars, event, chain, prev, serverVars, hist>>

\* The handler returns ret: None, and handle_event returns Ok(true), or
\* Some(event), and handle_event handles that event in turn.
Callback(ret, f) ==
    /\ pc = "callback"
    /\ op' = "callback"
    /\ arg' = ret
    /\ IF ret = NoEvent
       THEN /\ f = NoFailure
            /\ pc' = "waiting"
            /\ outcome' = "ok"
            /\ requests' = <<>>
            /\ UNCHANGED <<overlayVars, event, chain, serverVars, hist>>
       ELSE /\ chain < MaxChain
            /\ chain' = chain + 1
            /\ FailureApplies(f, ret)
            /\ \E h \in {HandleEvent(ret, f)} : Handled(ret, f, h)
            /\ UNCHANGED resize_policy
    /\ UNCHANGED <<envVars, events_seen, prev>>

\* d milliseconds pass while the loop waits.
Tick(d) ==
    /\ pc = "waiting"
    /\ now + d <= MaxTime
    /\ now' = now + d
    /\ UNCHANGED <<overlayVars, active_window, overflow_checks, loopVars,
                   callVars, serverVars, hist>>

Next ==
    \/ \E f \in LoopFailures : Start(f)
    \/ \E x \in XEvents, a \in ActiveWindows, f \in LoopFailures : Wait(x, a, f)
    \/ WaitFails
    \/ \E r \in FollowUps \cup {NoEvent}, f \in LoopFailures : Callback(r, f)
    \/ \E d \in {DebounceRedraw - 1, DebounceRedraw} : Tick(d)

Spec == Init /\ [][Next]_vars

-----------------------------------------------------------------------------
(* Claims on the event loop, under Spec.                                   *)

\* C1: when the handler returns StopEventLoop, for a raw event or anywhere
\* in a chain of follow-up events, event_loop terminates (it takes no
\* further step) and exactly one destroy request for the overlay window has
\* been sent over the whole run; none is sent before.
C1_StopDestroysOnce ==
    /\ [](/\ event.type = "StopEventLoop" =>
                /\ pc \in {"stopped", "error"}
                /\ destroys = 1
                /\ CountOf(requests, "destroy_window") = 1
          /\ event.type # "StopEventLoop" =>
                /\ pc # "stopped"
                /\ destroys = 0)
    /\ [][event.type # "StopEventLoop"]_vars

\* C1's case: the handler returned StopEventLoop as the follow-up of a
\* follow-up, and the loop has stopped.
C1_Witness ==
    /\ pc = "stopped"
    /\ chain >= 2
    /\ op = "callback"
    /\ arg = StopEventLoop
    /\ destroys = 1

\* The pairs of Redraw-producing notifications with no other Redraw between
\* them: hist holds, in order, every Redraw handled, with its instant t,
\* whether it caused a draw, and whether a notification produced it.
RedrawPairs ==
    {k \in 1 .. Len(hist) - 1 : hist[k].raw /\ hist[k + 1].raw}

DrawsOfPair(k) ==
    (IF hist[k].drew THEN 1 ELSE 0) + (IF hist[k + 1].drew THEN 1 ELSE 0)

\* C2 as amended: for two Redraw-producing notifications at t1 <= t2 with no
\* other Redraw in between, the first of which is drawn (it comes at least
\* 25ms after the overlay was created and after the last Redraw drawn):
\* they cause exactly one draw if t2 - t1 < 25ms and exactly two if
\* t2 - t1 >= 25ms.
C2_DebounceAfterDrawn ==
    \A k \in RedrawPairs :
        hist[k].drew =>
            DrawsOfPair(k) =
                IF hist[k + 1].t - hist[k].t < DebounceRedraw THEN 1 ELSE 2

\* C2's case: two notifications 25ms apart, the first of them drawn.
C2_Witness ==
    \E k \in RedrawPairs :
        /\ hist[k].drew
        /\ hist[k + 1].t - hist[k].t = DebounceRedraw
        /\ DrawsOfPair(k) = 2

\* C2 as stated: at any time after init, two such notifications cause
\* exactly one draw if t2 - t1 < 25ms and exactly two if t2 - t1 >= 25ms.
C2_DebounceAnyTime ==
    \A k \in RedrawPairs :
        DrawsOfPair(k) =
            IF hist[k + 1].t - hist[k].t < DebounceRedraw THEN 1 ELSE 2

\* C3: a raw key press or raw button press translated while has_focus() is
\* false is translated to Nothing, never to KeyPress or MousePress.
C3_FocusGating ==
    (/\ op = "Event::wait"
     /\ ReadsFocus(arg[1])
     /\ WindowHasFocus(parent, arg[2]) = "false") =>
        /\ event.type = "Nothing"
        /\ event.type \notin {"KeyPress", "MousePress"}

\* C3's case: a raw button press has been translated while another window
\* had the focus.
C3_Witness ==
    /\ op = "Event::wait"
    /\ arg[1].x = "XinputRawButtonPress"
    /\ arg[2] = OtherId
    /\ WindowHasFocus(parent, arg[2]) = "false"
    /\ event.type = "Nothing"

-----------------------------------------------------------------------------
(* Further claims on geometry resolution, under SpecResolve.               *)

\* The last operation resolved a FullScreen mapping: at creation, or at a
\* refresh of the window created with it.
ResolvedFullScreen ==
    \/ op = "Window::new" /\ arg = FullScreen
    \/ op = "Window::refresh" /\ window.mapping = FullScreen

\* C11: for every parent extent (w,h), resolving a FullScreen mapping
\* succeeds with position (0,0) and size exactly (w,h), at window creation
\* and at every refresh.
C11_FullScreenIsParentExtent ==
    ResolvedFullScreen =>
        /\ outcome = "ok"
        /\ window.pos = Vec(0, 0)
        /\ window.size = parent.size

\* C11's case: a FullScreen window made on another extent has been refreshed
\* on a 1920x1080 parent.
C11_Witness ==
    /\ op = "Window::refresh"
    /\ window.mapping = FullScreen
    /\ arg = Vec(1920, 1080)
    /\ prev.window.size # Vec(1920, 1080)
    /\ window.pos = Vec(0, 0)
    /\ window.size = Vec(1920, 1080)

-----------------------------------------------------------------------------
(* Claims on how event_loop returns, under Spec.                           *)

\* event_loop has returned: Ok(()) at pc "stopped", an error at pc "error".
Returned == pc \in {"stopped", "error"}

\* The outcomes of a failing draw, of a failing refresh, and of a failing
\* retrieval or translation of an event.
DrawErrors == {"request failed"}
RefreshErrors ==
    {"configure_window failed", "Invalid coordinates", "Invalid percentages"}
RetrievalErrors == {"wait_for_event failed", "has_focus failed"}

\* event_loop returned Ok(()) after a StopEventLoop event was processed.
ReturnedOnStop == pc = "stopped" /\ event.type = "StopEventLoop"

\* event_loop returned the error of a draw, a refresh or an event retrieval.
ReturnedOnError ==
    /\ pc = "error"
    /\ outcome \in DrawErrors \cup RefreshErrors \cup RetrievalErrors

\* event_loop returned the error of self.free(), after a StopEventLoop event
\* was processed.
ReturnedOnFailedFree ==
    /\ pc = "error"
    /\ event.type = "StopEventLoop"
    /\ outcome = "destroy_window failed"

\* C12 as amended: event_loop returns only with success after a
\* StopEventLoop event has been processed, with the error of a failing
\* draw, refresh or event retrieval, or with the error of a failing free of
\* the overlay window after a StopEventLoop event has been processed; for
\* events and a handler that produce none of these it does not return.
C12_ReturnsOnStopOrError ==
    Returned => ReturnedOnStop \/ ReturnedOnError \/ ReturnedOnFailedFree

\* C12's case: the handler returned StopEventLoop and the loop returned Ok,
\* having run through an event that neither stopped it nor failed.
C12_Witness ==
    /\ ReturnedOnStop
    /\ events_seen = MaxEvents
    /\ op = "callback"

\* C12 as stated: event_loop returns only with success after a
\* StopEventLoop event has been processed or with the error of a failing
\* draw, refresh or event retrieval.
C12_ReturnsTwoWays ==
    Returned => ReturnedOnStop \/ ReturnedOnError

\* C13: the first error returned by a draw, a refresh, or the retrieval or
\* translation of an event (a failing focus query included) terminates the
\* event loop with that error: a failing refresh is followed by no draw,
\* and after the error no raw event is retrieved, no draw is performed and
\* the handler is not invoked (the loop takes no further step).
C13_FirstErrorTerminates ==
    /\ [](/\ outcome \in DrawErrors \cup RefreshErrors \cup RetrievalErrors
                => pc = "error"
          /\ (pc = "error" /\ outcome \in RefreshErrors)
                => ~Has(requests, "create_pixmap", "mask"))
    /\ [][pc # "error"]_vars

\* C13's case: the loop has handled an event, then the refresh for a
\* ParentResize failed and the loop returned its error without drawing.
C13_Witness ==
    /\ pc = "error"
    /\ outcome = "configure_window failed"
    /\ event.type = "ParentResize"
    /\ events_seen = MaxEvents
    /\ Has(requests, "configure_window", "window")
    /\ ~Has(requests, "create_pixmap", "mask")

-----------------------------------------------------------------------------
(* Claims on Overlay::clear and the passes of Overlay::draw, under         *)
(* SpecDraw.                                                               *)

\* The draw requests among the requests of the last operation.
DrawRequests == {k \in DOMAIN requests : IsDraw(requests[k])}

\* C14: clear() performs exactly one render pass, of a queue holding one
\* filled TRANSPARENT rectangle over the whole extent (each pass draws one
\* filled rectangle, the mask pass with logical 0, and a pass that
\* completes cuts every sample pixel out of the bounding shape); when it
\* returns successfully the render queue is empty, whatever was queued.
C14_ClearDrawsOneRectangle ==
    op = "Overlay::clear" =>
        /\ \A k \in DrawRequests :
              /\ requests[k].req = "poly_fill_rectangle"
              /\ requests[k].shape = 1
              /\ requests[k].pass = "mask" => Bit(requests[k].value) = 0
        /\ Cardinality(DrawsOf(1, "mask")) <= 1
        /\ Cardinality(DrawsOf(1, "color")) <= 1
        /\ outcome # "ok" => render_queue = <<ClearRect>>
        /\ outcome = "ok" =>
              /\ render_queue = <<>>
              /\ Cardinality(DrawsOf(1, "mask")) = 1
              /\ Cardinality(DrawsOf(1, "color")) = 1
              /\ CountOf(requests, "shape_mask") = 1
              /\ CountOf(requests, "copy_area") = 1
              /\ CountOf(requests, "flush") = 1
              /\ \A c \in Cells : mask[c] = 0

\* C14's case: clear() has returned successfully on an overlay that had
\* MaxQueue shapes queued.
C14_Witness ==
    /\ op = "Overlay::clear"
    /\ outcome = "ok"
    /\ arg.queued = MaxQueue
    /\ render_queue = <<>>
    /\ \A c \in Cells : mask[c] = 0

-----------------------------------------------------------------------------
(* Claims on the translation of notifications, under Spec.                 *)

\* The last operation translated a notification whose arm calls has_focus;
\* arg[2] is the root's _NET_ACTIVE_WINDOW property it read.
FocusRead == op = "Event::wait" /\ ReadsFocus(arg[1])

\* What has_focus returned to that translation, as the loop shows it: an
\* error ends the loop with it, false gives Nothing, true the event built.
FocusSeen ==
    IF outcome = "has_focus failed" THEN "error"
    ELSE IF event.type = "Nothing" THEN "false"
    ELSE "true"

\* C15 as amended: has_focus() returns true exactly when the root's
\* active-window property holds this window's own handle; it returns false
\* when the property is absent (or not in 32-bit format) or empty; and it
\* returns an error when the property cannot be read (the atom or property
\* request, or its reply, fails).
C15_FocusOrError ==
    FocusRead =>
        /\ FocusSeen = "true" <=> arg[2] = parent.id
        /\ arg[2] \in {"absent", "empty"} => FocusSeen = "false"
        /\ arg[2] = "error" <=> FocusSeen = "error"
        /\ FocusSeen = "error" => pc = "error"

\* C15's case: a raw key press has been translated while the root had no
\* active-window property, and has_focus returned false.
C15_Witness ==
    /\ FocusRead
    /\ arg[1].x = "XinputRawKeyPress"
    /\ arg[2] = "absent"
    /\ FocusSeen = "false"
    /\ pc = "callback"

\* C15 as stated: true exactly for the window's own handle, and false,
\* never an error, when the property is absent, empty or cannot be read.
C15_FocusNeverErrors ==
    FocusRead =>
        /\ FocusSeen = "true" <=> arg[2] = parent.id
        /\ arg[2] \in {"absent", "empty", "error"} => FocusSeen = "false"
        /\ FocusSeen # "error"

-----------------------------------------------------------------------------
(* SpecTranslate: Event::handle_event (event.rs:112-182).  Notifications   *)
(* drawn from a bounded set are translated for an overlay on an 800x600    *)
(* parent, filling it or covering its top left quarter; the root's         *)
(* active-window property is an input of each translation that reads it.   *)

\* Raw key codes: the four arrows, codes around them, the ends of the u8
\* range, and codes above 255 with the low byte of an arrow.
KeyDetails ==
    {0, 8, ARROW_UP, ARROW_UP + 1, ARROW_LEFT, ARROW_RIGHT, ARROW_DOWN, 255,
     256 + ARROW_UP, 65536 + ARROW_LEFT, 16777216 + ARROW_DOWN}

ButtonDetails == {0, 1, 2, 3, 4, 257}

MotionCoords == {0, 400, 65535}

TranslateInputs ==
    {[x |-> "XinputRawKeyPress", detail |-> k] : k \in KeyDetails}
    \cup {[x |-> "XinputRawButtonPress", detail |-> b] : b \in ButtonDetails}
    \cup {[x |-> "XinputMotion", event_x |-> mx, event_y |-> my] :
            mx \in MotionCoords, my \in MotionCoords}
    \cup {[x |-> "ConfigureNotify", window |-> w,
           width |-> s.x, height |-> s.y] :
            w \in {ParentId, OtherId}, s \in Extents}
    \cup {[x |-> "MapNotify"], [x |-> "NoExposure"], [x |-> "Expose"],
          [x |-> "XinputRawKeyRelease", detail |-> ARROW_UP]}

TranslateMappings == {FullScreen, Pixels(Vec(0, 0), Vec(400, 300))}

InitTranslate ==
    /\ InitCommon
    /\ parent = WindowFrom(ParentId, 24, Vec(800, 600))
    /\ overflow_checks = FALSE
    /\ \E m \in TranslateMappings :
          window = WindowNew(parent, m, overflow_checks).window
    /\ render_queue = <<>>
    /\ resize_policy = "KeepAspectRatio"
    /\ active_window = ParentId
    /\ pc = "running"

\* Event::handle_event(overlay, xevent); a is the root's property when
\* has_focus reads it.  An error leaves the previous event in place.
Translate(xevent, a) ==
    /\ pc = "running"
    /\ ~ReadsFocus(xevent) => a = active_window
    /\ op' = "Event::handle_event"
    /\ arg' = <<xevent, a>>
    /\ \E e \in {TranslateEvent(xevent, parent, window, last_mouse_pos, a)} :
           /\ event' = IF e = Err THEN event ELSE e
           /\ outcome' = IF e = Err THEN "has_focus failed" ELSE "ok"
    /\ UNCHANGED <<overlayVars, envVars, pc, chain, events_seen, requests,
                   prev, serverVars, hist>>

NextTranslate ==
    \E x \in TranslateInputs, a \in ActiveWindows : Translate(x, a)

SpecTranslate == InitTranslate /\ [][NextTranslate]_vars

-----------------------------------------------------------------------------
(* Claims on Event::handle_event, under SpecTranslate.                     *)

\* The last operation translated a raw key press while the parent had the
\* focus; its raw key code is arg[1].detail.
KeyTranslated ==
    /\ op = "Event::handle_event"
    /\ arg[1].x = "XinputRawKeyPress"
    /\ arg[2] = parent.id

\* The key the claim gives the raw key code k.
KeyOfCode(k) ==
    CASE k = 111 -> "ArrowUp"
      [] k = 113 -> "ArrowLeft"
      [] k = 114 -> "ArrowRight"
      [] k = 116 -> "ArrowDown"
      [] OTHER   -> "Unkown"

\* C16: a raw key press with the u32 key code k, received while the parent
\* has the focus, is translated to KeyPress carrying ArrowUp, ArrowLeft,
\* ArrowRight, ArrowDown exactly when k is 111, 113, 114, 116, and the
\* unknown key for every other k.
C16_KeyByCode ==
    KeyTranslated => event = KeyPress(KeyOfCode(arg[1].detail))

-----------------------------------------------------------------------------
(* SpecColor: Color::value (color.rs:288-313).  The value of a color drawn *)
(* from a bounded set is taken at one of the five depths; hist holds the   *)
(* value returned.                                                         *)

Depths == {1, 8, 16, 24, 32}

\* Bytes of the RGB and RGBA variants: the ends of the range, the least
\* non-zero value and one with its high bit alone.
ColorBytes == {0, 1, 128, 255}

Colors ==
    {Named(t) : t \in DOMAIN NamedHex}
    \cup {TRANSPARENT}
    \cup {RGB(r, g, b) : r \in ColorBytes, g \in ColorBytes, b \in ColorBytes}
    \cup {RGBA(r, 0, b, a) : r \in ColorBytes, b \in ColorBytes, a \in ColorBytes}

InitColor ==
    /\ InitCommon
    /\ parent = WindowFrom(ParentId, 24, Vec(800, 600))
    /\ overflow_checks = FALSE
    /\ window = WindowNew(parent, FullScreen, overflow_checks).window
    /\ render_queue = <<>>
    /\ resize_policy = "KeepAspectRatio"
    /\ active_window = ParentId
    /\ pc = "running"

\* c.value(&d)
Value(c, d) ==
    /\ pc = "running"
    /\ op' = "Color::value"
    /\ arg' = <<c, d>>
    /\ hist' = ColorValue(c, d)
    /\ UNCHANGED <<overlayVars, envVars, loopVars, prev, outcome, requests,
                   serverVars>>

NextColor == \E c \in Colors, d \in Depths : Value(c, d)

SpecColor == InitColor /\ [][NextColor]_vars

-----------------------------------------------------------------------------
(* Claims on Color::value, under SpecColor.                                *)

\* The pixel value v, four bytes with the most significant first, is less
\* than 2^d.
BelowDepth(v, d) ==
    CASE d = 32 -> TRUE
      [] d = 24 -> v[1] = 0
      [] d = 16 -> v[1] = 0 /\ v[2] = 0
      [] d = 8  -> v[1] = 0 /\ v[2] = 0 /\ v[3] = 0
      [] d = 1  -> v[1] = 0 /\ v[2] = 0 /\ v[3] = 0 /\ v[4] <= 1

\* C17: for every Color and every depth d in {1, 8, 16, 24, 32} the value
\* Color::value returns is less than 2^d, and TRANSPARENT yields 0 at every
\* depth.
C17_ValueFitsDepth ==
    op = "Color::value" =>
        /\ BelowDepth(hist, arg[2])
        /\ arg[1] = TRANSPARENT => hist = <<0, 0, 0, 0>>


-----------------------------------------------------------------------------
(* SpecHandler: the event loop under the handler of the crate's example,   *)
(* which changes the colour of the queued rectangle on a mouse event and   *)
(* returns Some(Event::Redraw), and returns None otherwise.                *)

\* The example's color_tab, cut to two colours: the colour after c.
color_tab_next(c) == IF c = Named("RED") THEN Named("BLUE") ELSE Named("RED")

\* Rectangle::set_forground_color
set_forground_color(shape, color) == [shape EXCEPT !.forground = color]

\* The queue after the handler's `rec.set_forground_color(color_tab[..])`
\* on its first shape.
Recolored(queue) ==
    [queue EXCEPT ![1] = set_forground_color(@, color_tab_next(@.forground))]

\* The handler changes the colour of the queued shape and returns
\* Some(Event::Redraw); handle_event handles that Redraw in turn.
CallbackMutating(f) ==
    /\ pc = "callback"
    /\ chain < MaxChain
    /\ chain' = chain + 1
    /\ op' = "callback"
    /\ arg' = <<Redraw, "set_forground_color">>
    /\ FailureApplies(f, Redraw)
    /\ \E h \in {HandleEventOn(Recolored(render_queue), Redraw, f)} :
           Handled(Redraw, f, h)
    /\ UNCHANGED <<resize_policy, envVars, events_seen, prev>>

\* The notifications the example's handler answers with a mutation.
HandlerXEvents ==
    {[x |-> "XinputRawButtonPress", detail |-> 1],
     [x |-> "XinputMotion", event_x |-> 400, event_y |-> 300]}

DrawFailures == {NoFailure, <<"flush", "color">>}

NextHandler ==
    \/ \E f \in DrawFailures : Start(f)
    \/ \E x \in HandlerXEvents : Wait(x, ParentId, NoFailure)
    \/ \E f \in DrawFailures : CallbackMutating(f)
    \/ Callback(NoEvent, NoFailure)
    \/ \E d \in {DebounceRedraw - 1, DebounceRedraw} : Tick(d)

SpecHandler == Init /\ [][NextHandler]_vars

\* The overlay shows the queue: its pixels are those a successful draw of
\* the queue as it is leaves.
ShowsQueue == screen = Draw(render_queue, window, 0).screen

\* The handler has just mutated the queued shape and returned Redraw, and
\* the loop goes on.
MutatedAndRedraw ==
    /\ op = "callback"
    /\ arg = <<Redraw, "set_forground_color">>
    /\ pc # "error"

\* C18: when the handler mutates a queued shape and returns Redraw, a
\* render pass is performed for that Redraw, and the overlay shows the
\* mutated queue, before the loop retrieves the next raw event (the loop
\* is not back at its wait with the mutation unrendered).
C18_MutationRendered ==
    MutatedAndRedraw =>
        /\ hist[Len(hist)].drew
        /\ ShowsQueue
        /\ outcome = "ok"


-----------------------------------------------------------------------------
(* Claims on the mask pass of Overlay::draw, under SpecDraw.               *)

\* The queued shapes whose foreground is not TRANSPARENT.
OpaqueShapes == DOMAIN render_queue \ TransparentShapes

\* C19: in the mask pass of every draw, each queued shape whose foreground
\* is a color other than TRANSPARENT (BLACK and every RGB value included)
\* is drawn with logical 1, and each shape whose foreground is TRANSPARENT
\* with logical 0.
C19_MaskOpaqueUnlessTransparent ==
    Drawn =>
        /\ \A i \in OpaqueShapes :
              \A k \in DrawsOf(i, "mask") : Bit(requests[k].value) = 1
        /\ \A i \in TransparentShapes :
              \A k \in DrawsOf(i, "mask") : Bit(requests[k].value) = 0


-----------------------------------------------------------------------------
(* Claims on the order of the requests of Overlay::draw, under SpecDraw.   *)

\* The requests of reqs from number k on that create or free a pixmap,
\* draw a shape, set the bounding shape, copy the pixmap or flush, each as
\* <<kind, pass, shape>>.
RECURSIVE Listed(_, _)
Listed(reqs, k) ==
    IF k > Len(reqs) THEN <<>>
    ELSE (IF IsDraw(reqs[k])
          THEN << <<"draw", reqs[k].pass, reqs[k].shape>> >>
          ELSE IF reqs[k].req \in {"create_pixmap", "shape_mask",
                                   "free_pixmap", "copy_area", "flush"}
               THEN << <<reqs[k].req, reqs[k].pass, 0>> >>
               ELSE <<>>)
         \o Listed(reqs, k + 1)

\* The order stated for a queue of n shapes.
StatedOrder(n) ==
    << <<"create_pixmap", "mask", 0>> >>
    \o [i \in 1 .. n |-> <<"draw", "mask", i>>]
    \o << <<"shape_mask", "mask", 0>>,
          <<"free_pixmap", "mask", 0>>,
          <<"create_pixmap", "color", 0>> >>
    \o [i \in 1 .. n |-> <<"draw", "color", i>>]
    \o << <<"copy_area", "color", 0>>,
          <<"free_pixmap", "color", 0>>,
          <<"flush", "color", 0>> >>

\* The number of the flush among the requests (0 if there is none).
FlushAt ==
    IF \E k \in DOMAIN requests : requests[k].req = "flush"
    THEN CHOOSE k \in DOMAIN requests : requests[k].req = "flush"
    ELSE 0

\* The requests sent after the flush.
AfterFlush == SubSeq(requests, FlushAt + 1, Len(requests))

\* C20 (amended): every successful draw issues its requests in the order:
\* create the 1-bit mask pixmap, draw every queued shape into it, set the
\* bounding shape, free the mask pixmap, create the full-depth pixmap, draw
\* every queued shape into it in queue order, one copy-area, free the
\* pixmap, flush; and after the flush, before draw returns, only the free
\* requests of the two graphics contexts are sent.
C20_DrawOrderThenGcFreed ==
    Drawn =>
        /\ Listed(requests, 1) = StatedOrder(Len(render_queue))
        /\ CountOf(requests, "flush") = 1
        /\ Len(AfterFlush) = 2
        /\ \A k \in DOMAIN AfterFlush : AfterFlush[k].req = "free_gc"
        /\ {AfterFlush[k].pass : k \in DOMAIN AfterFlush} = {"mask", "color"}

\* C20's case: a draw of a queue of two shapes or more has returned Ok.
C20_Witness ==
    /\ Drawn
    /\ Len(render_queue) >= 2
    /\ FlushAt > 0

\* C20 as stated: the requests come in the stated order and the flush is
\* the last request before draw returns.
C20_FlushLast ==
    Drawn =>
        /\ Listed(requests, 1) = StatedOrder(Len(render_queue))
        /\ requests[Len(requests)].req = "flush"


-----------------------------------------------------------------------------
(* Claims on the pixmaps of Overlay::draw, under SpecDraw.                 *)

\* C21: whenever a draw call returns, with Ok or with the error of a
\* request inside it, every pixmap the call created has been freed: no
\* pixmap is live on the server between render passes.
C21_NoPixmapLive ==
    op \in {"Overlay::draw", "Overlay::clear"} => pixmaps = 0


-----------------------------------------------------------------------------
(* Claims on the translation of ConfigureNotify, under SpecTranslate.      *)

\* The last operation translated a ConfigureNotify notification.
ConfigureTranslated ==
    /\ op = "Event::handle_event"
    /\ arg[1].x = "ConfigureNotify"

\* C22: for every mapping of the overlay, a ConfigureNotify notification is
\* translated to ParentResize(new_size) if it is for the parent and its
\* size differs from the parent's recorded size, and to Unkown otherwise
\* (the parent's current size, or any other window).
C22_ResizeIffParentSizeDiffers ==
    ConfigureTranslated =>
        event = IF /\ arg[1].window = parent.id
                   /\ Vec(arg[1].width, arg[1].height) # parent.size
                THEN ParentResize(Vec(arg[1].width, arg[1].height))
                ELSE Unkown


-----------------------------------------------------------------------------
(* Claims on the resize policies, under SpecRefresh.                       *)

\* C23: for every mapping and every policy, a refresh changes a queued
\* shape's stored position or size only if the overlay window's size after
\* the refresh differs from its size before it.
C23_PolicyOnlyOnSizeChange ==
    (op = "Overlay::refresh" /\ window.size = prev.window.size) =>
        render_queue = prev.render_queue


\* The last operation was a refresh that returned Ok.
Refreshed == op = "Overlay::refresh" /\ outcome = "ok"

\* The fraction a multiplied by old / new.
Scaled(a, old, new) == RDiv(RMul(a, RInt(old)), RInt(new))

\* Shape s is shape p with the x components of its size and position
\* multiplied by old / new, and nothing else changed.
ScaledX(s, p, old, new) ==
    s = [p EXCEPT !.size = Vec(Scaled(p.size.x, old, new), p.size.y),
                  !.position = Vec(Scaled(p.position.x, old, new),
                                   p.position.y)]

\* The same for the y components.
ScaledY(s, p, old, new) ==
    s = [p EXCEPT !.size = Vec(p.size.x, Scaled(p.size.y, old, new)),
                  !.position = Vec(p.position.x,
                                   Scaled(p.position.y, old, new))]

\* C24: on a ParentResize, KeepAspectRatio leaves every queued shape's
\* stored position and size unchanged; KeepWidth multiplies only the x
\* components of each shape's size and position by old_width / new_width,
\* the overlay's width before and after the resize; KeepHeight does the
\* same for y with old_height / new_height.
C24_PolicyAxes ==
    Refreshed =>
        \A i \in DOMAIN render_queue :
            /\ resize_policy = "KeepAspectRatio" =>
                  render_queue[i] = prev.render_queue[i]
            /\ resize_policy = "KeepWidth" =>
                  ScaledX(render_queue[i], prev.render_queue[i],
                          prev.window.size.x, window.size.x)
            /\ resize_policy = "KeepHeight" =>
                  ScaledY(render_queue[i], prev.render_queue[i],
                          prev.window.size.y, window.size.y)


-----------------------------------------------------------------------------
(* Claims on the order of the steps of the event loop, under Spec.         *)

\* No raw event has been retrieved yet and event_loop has begun.
BeforeFirstEvent == events_seen = 0 /\ pc # "start"

\* C25: event_loop performs exactly one draw before the first raw event is
\* retrieved, whatever the debounce table holds, and the handler is not
\* invoked for it: until the first retrieval the last operation is that
\* draw, the loop is at its wait (or has returned the draw's error), no
\* Redraw event has been dispatched and the debounce table is as created.
C25_OneDrawFirst ==
    BeforeFirstEvent =>
        /\ op = "Overlay::event_loop"
        /\ pc \in {"waiting", "error"}
        /\ pc = "waiting" =>
              /\ outcome = "ok"
              /\ CountOf(requests, "shape_mask") = 1
              /\ CountOf(requests, "copy_area") = 1
              /\ CountOf(requests, "flush") = 1
              /\ ShowsQueue
        /\ hist = <<>>
        /\ chain = 0
        /\ event = Nothing
        /\ debounce_table = gen_debounce_table(0)

\* C25's case: the first draw has been done at an instant at which a Redraw
\* event would be dropped by the debounce filter.
C25_Witness ==
    /\ BeforeFirstEvent
    /\ pc = "waiting"
    /\ is_debounce(Redraw, debounce_table, now)
    /\ ShowsQueue


\* Request number k of the given kind is sent before every create_pixmap.
BeforeDraw(reqs, req) ==
    \E k \in DOMAIN reqs :
        /\ reqs[k].req = req
        /\ \A j \in DOMAIN reqs : reqs[j].req = "create_pixmap" => k < j

\* The requests are those of one whole draw of the queue as it is, and the
\* overlay shows it.
DrawDone ==
    /\ CountOf(requests, "shape_mask") = 1
    /\ CountOf(requests, "copy_area") = 1
    /\ CountOf(requests, "flush") = 1
    /\ ShowsQueue

\* C26: when the handler is invoked with an event, the event's built-in
\* reaction is complete: for ParentResize the overlay's geometry is that of
\* the new parent extent, the queue is the rescaled one, the
\* configure_window precedes the draw and the draw (of the rescaled queue)
\* is done; for Redraw the draw is done; for MouseMotion the last mouse
\* coordinate is the event's.
C26_ReactionBeforeHandler ==
    pc = "callback" =>
        /\ event.type = "ParentResize" =>
              /\ parent.size = event.size
              /\ window.size = event.size
              /\ render_queue = << Rescale(ShapeA, resize_policy,
                                           Vec(800, 600), event.size) >>
              /\ BeforeDraw(requests, "configure_window")
              /\ DrawDone
        /\ event.type = "Redraw" => DrawDone
        /\ event.type = "MouseMotion" => last_mouse_pos = event.coord

\* C26's case: the handler is about to be invoked with a ParentResize.
C26_Witness ==
    /\ pc = "callback"
    /\ event.type = "ParentResize"
    /\ render_queue # << ShapeA >>
    /\ DrawDone


\* The handler has just returned a follow-up event other than
\* StopEventLoop, and its processing has not failed.
FollowUpReturned ==
    /\ op = "callback"
    /\ arg \in FollowUps
    /\ ~Stops(arg)
    /\ pc # "error"

\* C27: every follow-up event the handler returns is reprocessed before the
\* next raw event is retrieved: its built-in reaction is applied (for a
\* Redraw, a draw is done) and the handler is invoked with it.
C27_FollowUpReprocessed ==
    FollowUpReturned =>
        /\ pc = "callback"
        /\ event = arg
        /\ arg = Redraw => DrawDone


-----------------------------------------------------------------------------
(* Claims on the debounce filter, under Spec.                              *)

\* One event of each variant other than Redraw.
OtherVariants ==
    {ParentResize(Vec(1600, 600)),
     MousePress("Left", last_mouse_pos), MouseMotion(last_mouse_pos),
     KeyPress("ArrowUp"), KeyRelease("ArrowUp"),
     StopEventLoop, Nothing, Unkown}

\* The event just retrieved or returned by the handler was dropped by the
\* debounce filter.
Dropped ==
    /\ op \in {"Event::wait", "callback"}
    /\ outcome = "debounced"

\* C28: only Redraw is ever dropped by the debounce filter: an event that
\* was dropped is a Redraw, and with the table and the clock of any
\* reachable state (zero elapsed time included) the filter lets an event
\* of every other variant through.
C28_OnlyRedrawDropped ==
    /\ Dropped => event = Redraw
    /\ \A e \in OtherVariants : ~is_debounce(e, debounce_table, now)

\* C28's case: a second raw event, of a variant other than Redraw, was
\* retrieved with zero time elapsed since its slot's instant and has
\* reached the handler.
C28_Witness ==
    /\ op = "Event::wait"
    /\ events_seen = 2
    /\ pc = "callback"
    /\ event.type = "KeyPress"
    /\ now = 0
    /\ debounce_table[debounce_table_index(event)] = now


-----------------------------------------------------------------------------
(* Claims on the order in which events are processed, under Spec.          *)

\* The handler is about to be invoked with a raw-originated event.
RawAtHandler == pc = "callback" /\ chain = 0

\* The event at the handler is the translation of the notification
\* retrieved last (arg, of Event::wait).
TranslationOfLast ==
    /\ op = "Event::wait"
    /\ IF event.type = "ParentResize"
       THEN /\ arg[1].x = "ConfigureNotify"
            /\ event.size = Vec(arg[1].width, arg[1].height)
       ELSE event = TranslateEvent(arg[1], parent, window, last_mouse_pos,
                                   arg[2])

\* The loop is back at its wait because the draw before the loop is done,
\* or the handler returned no follow-up, or the event was dropped by the
\* debounce filter.
IterationOver ==
    \/ op = "Overlay::event_loop"
    \/ op = "callback" /\ arg = NoEvent
    \/ outcome = "debounced"

\* C29: events are processed in the order the server delivers them: each
\* raw-originated event given to the handler is the translation of the
\* notification retrieved last (a notification is handed on at once or
\* dropped, never kept for later), and a notification is retrieved only at
\* the loop's wait, which is reached only when the processing of the
\* previous one and of all its follow-ups is over.
C29_DeliveryOrder ==
    /\ [](/\ RawAtHandler => TranslationOfLast
          /\ pc = "waiting" => IterationOver)
    /\ [][events_seen' # events_seen =>
              /\ pc = "waiting"
              /\ events_seen' = events_seen + 1
              /\ op' = "Event::wait"]_vars

\* C29's case: a second raw event is at the handler after the first one had
\* a follow-up processed.
C29_Witness ==
    /\ RawAtHandler
    /\ events_seen = 2
    /\ hist # <<>>
    /\ ~hist[1].raw


-----------------------------------------------------------------------------
(* SpecMouse: the event loop under pointer notifications only, with a      *)
(* handler that returns None or a MouseMotion of its own.                  *)

MouseXEvents ==
    {[x |-> "XinputRawButtonPress", detail |-> b] : b \in ButtonDetails}
    \cup {[x |-> "XinputMotion", event_x |-> 400, event_y |-> 300],
          [x |-> "XinputMotion", event_x |-> 200, event_y |-> 600]}

\* The MouseMotion the handler returns.
HandlerMotion == MouseMotion(Vec(Frac(1, 4), Frac(3, 4)))

NextMouse ==
    \/ Start(NoFailure)
    \/ \E x \in MouseXEvents, a \in {ParentId, OtherId} : Wait(x, a, NoFailure)
    \/ \E r \in {NoEvent, HandlerMotion} : Callback(r, NoFailure)
    \/ Tick(DebounceRedraw)

SpecMouse == Init /\ [][NextMouse]_vars

\* The button the claim gives the code d.
ButtonOfCode(d) ==
    CASE d = 1 -> "Left"
      [] d = 2 -> "Middle"
      [] d = 3 -> "Right"
      [] OTHER -> "Unknown"

\* C30: every MousePress the translator emits carries the coordinate of the
\* most recent MouseMotion processed before it, raw or returned by the
\* handler, or (0,0) if there was none: the recorded coordinate is (0,0)
\* at the start, changes only when a MouseMotion is processed, is then that
\* event's coordinate, and is the coordinate of every MousePress emitted;
\* the button is Left, Middle, Right for the codes 1, 2, 3 and Unknown for
\* any other code.
C30_PressCarriesLastMotion ==
    /\ [](/\ pc = "start" => last_mouse_pos = Vec(RInt(0), RInt(0))
          /\ event.type = "MouseMotion" => last_mouse_pos = event.coord
          /\ event.type = "MousePress" =>
                /\ event.coord = last_mouse_pos
                /\ op = "Event::wait" =>
                      event.button = ButtonOfCode(arg[1].detail))
    /\ [][last_mouse_pos' # last_mouse_pos =>
              event'.type = "MouseMotion"]_vars

\* C30's case: a MousePress emitted after a MouseMotion returned by the
\* handler carries that event's coordinate, and its code is above 255.
C30_Witness ==
    /\ op = "Event::wait"
    /\ event.type = "MousePress"
    /\ event.coord = HandlerMotion.coord
    /\ arg[1].detail > 255


-----------------------------------------------------------------------------
(* SpecFocus: the loop of SpecMouse, started while the parent or another   *)
(* window holds the input focus.  A notification whose translation does    *)
(* not read the root's property arrives with the property as it was at     *)
(* the start.                                                              *)

InitFocus ==
    /\ InitCommon
    /\ parent = WindowFrom(ParentId, 24, Vec(800, 600))
    /\ overflow_checks = FALSE
    /\ window = WindowNew(parent, FullScreen, overflow_checks).window
    /\ render_queue = <<ShapeA>>
    /\ resize_policy = "KeepBoth"
    /\ active_window \in {ParentId, OtherId}
    /\ pc = "start"

SpecFocus == InitFocus /\ [][NextMouse]_vars

\* The handler is about to be invoked with a raw-originated mouse or key
\* event.
InputAtHandler ==
    /\ RawAtHandler
    /\ op = "Event::wait"
    /\ event.type \in {"MousePress", "MouseMotion", "KeyPress", "KeyRelease"}

\* C31: no MousePress, MouseMotion, KeyPress or KeyRelease translated from
\* a notification is passed to the handler at a moment when the parent
\* window does not hold the input focus.
C31_InputOnlyWithFocus ==
    InputAtHandler => WindowHasFocus(parent, arg[2]) = "true"


-----------------------------------------------------------------------------
(* Claims on the translation of XinputMotion, under SpecTranslate.         *)

\* The last operation translated an XinputMotion notification.
MotionTranslated ==
    /\ op = "Event::handle_event"
    /\ arg[1].x = "XinputMotion"

\* The low 16 bits of a non-negative coordinate.
Low16(v) == v % (U16Max + 1)

\* C32: the coordinates of a raw motion are reduced modulo 65536 before
\* they are normalized: the MouseMotion carries event_x mod 65536 over the
\* overlay's width and event_y mod 65536 over its height.
C32_MotionMod65536 ==
    MotionTranslated =>
        event = MouseMotion(Vec(Rat(Low16(arg[1].event_x), window.size.x),
                                Rat(Low16(arg[1].event_y), window.size.y)))


-----------------------------------------------------------------------------
(* SpecGeometry: the event loop of an overlay created with a FullScreen, a *)
(* Pixels or a Percent mapping on an 800x600 parent, under ConfigureNotify *)
(* notifications and a handler that returns None or a ParentResize.        *)

GeometryMappings ==
    {FullScreen,
     Pixels(Vec(0, 0), Vec(400, 300)),
     Percent(Vec(Frac(0, 1), Frac(0, 1)), Vec(Frac(1, 2), Frac(1, 2))),
     Percent(Vec(Frac(3, 4), Frac(1, 3)), Vec(Frac(1, 4), Frac(1, 3)))}

\* The parent extents notified or returned by the handler: those of
\* Extents and the widest a u16 holds.
GeometryExtents == Extents \cup {Vec(U16Max, 600)}

InitGeometry ==
    /\ InitCommon
    /\ parent = WindowFrom(ParentId, 24, Vec(800, 600))
    /\ overflow_checks = FALSE
    /\ \E m \in GeometryMappings :
          window = WindowNew(parent, m, overflow_checks).window
    /\ render_queue = <<ShapeA>>
    /\ resize_policy = "KeepAspectRatio"
    /\ active_window = ParentId
    /\ pc = "start"

GeometryXEvents ==
    {[x |-> "ConfigureNotify", window |-> w, width |-> s.x, height |-> s.y] :
        w \in {ParentId, OtherId}, s \in GeometryExtents}

NextGeometry ==
    \/ Start(NoFailure)
    \/ \E x \in GeometryXEvents : Wait(x, ParentId, NoFailure)
    \/ \E r \in {NoEvent} \cup {ParentResize(s) : s \in GeometryExtents} :
          Callback(r, NoFailure)

SpecGeometry == InitGeometry /\ [][NextGeometry]_vars

\* A ConfigureNotify for the parent has just been retrieved and its
\* dispatch step has completed without error.
ParentNotified ==
    /\ op = "Event::wait"
    /\ arg[1].x = "ConfigureNotify"
    /\ arg[1].window = parent.id
    /\ pc # "error"

\* C33: after every dispatch step that completes without error, for every
\* mapping, the parent's recorded size is the size carried by the most
\* recent ConfigureNotify received for the parent.
C33_ParentSizeFresh ==
    ParentNotified => parent.size = Vec(arg[1].width, arg[1].height)


\* The loop is between two dispatch steps, or in one at the handler, and
\* has not failed.
BetweenSteps == pc \in {"start", "waiting", "callback"}

\* The integer part of a non-negative fraction.
Floor(a) == a[1] \div a[2]

\* The position and size the mapping resolves to on a parent of extent
\* psize: FullScreen (0,0) and the parent's size, Pixels the literal
\* values, Percent the floor of the parent's extent times the fractions.
Resolution(mapping, psize) ==
    CASE mapping.kind = "FullScreen" -> [pos |-> Vec(0, 0), size |-> psize]
      [] mapping.kind = "Pixels" ->
            [pos |-> mapping.pos, size |-> mapping.size]
      [] mapping.kind = "Percent" ->
            [pos  |-> Vec(Floor(RMul(RInt(psize.x), mapping.fpos.x)),
                          Floor(RMul(RInt(psize.y), mapping.fpos.y))),
             size |-> Vec(Floor(RMul(RInt(psize.x), mapping.fsize.x)),
                          Floor(RMul(RInt(psize.y), mapping.fsize.y)))]

\* C36: between dispatch steps, in every non-error state, the overlay's
\* recorded position and size are the resolution of its mapping against the
\* parent's recorded size, after creation and after any sequence of
\* ParentResize events, raw or returned by the handler.
C36_GeometryResolved ==
    BetweenSteps =>
        /\ window.pos = Resolution(window.mapping, parent.size).pos
        /\ window.size = Resolution(window.mapping, parent.size).size


------------------------------------------------------------------------------
(* Borrows of the queued shapes.  Each queued shape is an Rc<RefCell<..>>; *)
(* its borrow flag counts the shared borrows held (n > 0), is -1 under an  *)
(* exclusive borrow and 0 when unborrowed.  A borrow the flag forbids      *)
(* panics.                                                                 *)

\* The flags of a queue nobody has borrowed from.
Unborrowed(queue) == [status |-> "ok", flags |-> [i \in 1..Len(queue) |-> 0]]

BorrowPanic(b) == [status |-> "panic", flags |-> b.flags]

\* RefCell::borrow on shape i.
borrow(b, i) ==
    IF b.status # "ok" THEN b
    ELSE IF b.flags[i] < 0 THEN BorrowPanic(b)
    ELSE [b EXCEPT !.flags[i] = @ + 1]

\* RefCell::borrow_mut on shape i.
borrow_mut(b, i) ==
    IF b.status # "ok" THEN b
    ELSE IF b.flags[i] # 0 THEN BorrowPanic(b)
    ELSE [b EXCEPT !.flags[i] = -1]

\* A shared borrow of a loop body that outlives the body.
RefDrop_Held(b, i) == b

\* The Ref bound in a loop body goes out of scope at the body's end.
RefDrop(b, i) ==
    IF b.status # "ok" THEN b ELSE [b EXCEPT !.flags[i] = @ - 1]

\* The RefMut bound in a loop body, or in the handler, goes out of scope.
RefMutDrop(b, i) ==
    IF b.status # "ok" THEN b ELSE [b EXCEPT !.flags[i] = 0]

\* One loop of Overlay::draw over the queue, from shape i on: each body
\* borrows its shape, draws it and ends.
RECURSIVE DrawLoop(_, _)
DrawLoop(b, i) ==
    IF i > Len(b.flags) THEN b
    ELSE DrawLoop(RefDrop(borrow(b, i), i), i + 1)

\* Overlay::draw: the mask loop, then the pixmap loop.
DrawBorrows(b) == DrawLoop(DrawLoop(b, 1), 1)

\* One rescaling loop of Overlay::refresh, from shape i on.
RECURSIVE RescaleLoop(_, _)
RescaleLoop(b, i) ==
    IF i > Len(b.flags) THEN b
    ELSE RescaleLoop(RefMutDrop(borrow_mut(b, i), i), i + 1)

\* Overlay::refresh under a policy: KeepAspectRatio touches no shape.
RefreshBorrows(b, policy) ==
    IF policy = "KeepAspectRatio" THEN b ELSE RescaleLoop(b, 1)

\* What the driver does with the shapes for event e before it invokes the
\* handler.
ReactionBorrows(b, e, policy) ==
    CASE e.type = "Redraw" -> DrawBorrows(b)
      [] e.type = "ParentResize" -> DrawBorrows(RefreshBorrows(b, policy))
      [] OTHER -> b

\* The handler takes exclusive access to shape i and releases it before it
\* returns.
HandlerBorrows(b, i) == RefMutDrop(borrow_mut(b, i), i)

Free(b) == b.status = "ok" /\ \A i \in DOMAIN b.flags : b.flags[i] = 0

Policies == {"KeepAspectRatio", "KeepWidth", "KeepHeight", "KeepBoth"}

\* The flags when the handler is invoked for the current event.
AtHandler == ReactionBorrows(Unborrowed(render_queue), event, resize_policy)

\* C34: whenever the handler is invoked, for a raw event or a follow-up, the
\* driver holds no borrow of a queued shape; a handler that takes exclusive
\* access to a queued shape and releases it before returning does not
\* panic, and neither does a later draw or rescaling pass of the driver.
C34_BorrowsScoped ==
    pc = "callback" =>
        /\ Free(AtHandler)
        /\ \A i \in 1..Len(render_queue) :
              /\ HandlerBorrows(AtHandler, i).status = "ok"
              /\ DrawBorrows(HandlerBorrows(AtHandler, i)).status = "ok"
              /\ \A p \in Policies :
                    RefreshBorrows(HandlerBorrows(AtHandler, i), p).status = "ok"

\* C34's case: the handler took exclusive access to the queued shape and
\* returned Redraw, the driver drew the queue for it and invokes the handler
\* again, for the follow-up.
C34_Witness ==
    /\ pc = "callback"
    /\ MutatedAndRedraw
    /\ hist[Len(hist)].drew
    /\ event = Redraw
    /\ Len(render_queue) > 0


------------------------------------------------------------------------------
(* Validation errors at creation.                                          *)

ValidationErrors == {"Invalid coordinates", "Invalid percentages"}

\* Window::new has just returned a validation error for its mapping.
ValidationFailed ==
    /\ op = "Window::new"
    /\ arg.kind \in {"Pixels", "Percent"}
    /\ outcome \in ValidationErrors

\* C35: when creation is given a Pixels or Percent mapping that fails
\* validation against the parent's extent, the validation error is returned
\* with no create-window or map-window request issued, and no overlay
\* window exists afterwards.
C35_ValidationBeforeCreation ==
    ValidationFailed =>
        /\ \A k \in DOMAIN requests :
              requests[k].req \notin {"create_window", "map_window"}
        /\ window = NoWindow
        /\ pc = "failed"

\* C35's case: creation was given a Percent mapping reaching beyond the
\* parent and returned the invalid-percentages error.
C35_Witness ==
    /\ ValidationFailed
    /\ arg.kind = "Percent"
    /\ outcome = "Invalid percentages"
    /\ prev.window = NoWindow


------------------------------------------------------------------------------
(* The overlay window's destruction.                                       *)

\* A destroy_window request is among those of the last operation.
DestroySent == CountOf(requests, "destroy_window") > 0

\* C37: if event_loop returns with an error from the initial draw, an event
\* retrieval or translation, a refresh or a draw, no destroy request for the
\* overlay window has been issued; one is issued only in the step that
\* processes a StopEventLoop event.
C37_DestroyOnlyOnStop ==
    /\ ReturnedOnError => destroys = 0 /\ ~DestroySent
    /\ (destroys > 0 \/ DestroySent) =>
          /\ event.type = "StopEventLoop"
          /\ pc \in {"stopped", "error"}
          /\ destroys = 1

\* C37's case: a step handling a ParentResize failed in its refresh or its
\* draw after the loop had drawn and gone through an event, and event_loop
\* returned the error.
C37_Witness ==
    /\ ReturnedOnError
    /\ event.type = "ParentResize"
    /\ events_seen > 0
    /\ hist # <<>>


------------------------------------------------------------------------------
(* StopEventLoop.                                                          *)

\* The event being processed is a StopEventLoop.
StopProcessed == event.type = "StopEventLoop"

\* C38: the handler is never invoked with StopEventLoop; a StopEventLoop
\* originates only as the handler's return value, and the step processing
\* it stops the loop without calling the handler and without the requests
\* of a draw or a refresh: the only request is the destroy_window of the
\* free that follows the loop.
C38_StopNeverHandled ==
    /\ pc = "callback" => ~StopProcessed
    /\ StopProcessed =>
          /\ op = "callback"
          /\ arg = StopEventLoop
          /\ chain > 0
          /\ pc \in {"stopped", "error"}
          /\ pc = "error" => outcome = "destroy_window failed"
          /\ \A k \in DOMAIN requests : requests[k].req = "destroy_window"

\* C38's case: the handler, invoked for a follow-up it had returned itself,
\* returned StopEventLoop and the loop has stopped.
C38_Witness ==
    /\ StopProcessed
    /\ pc = "stopped"
    /\ chain > 1
    /\ screen # <<>>


------------------------------------------------------------------------------
(* The debounce table's slots.                                             *)

\* One event of each variant.
EachVariant == OtherVariants \cup {Redraw}

\* Distinct variants have distinct slots, all within the table.
SlotsDistinct ==
    /\ DOMAIN debounce_table = 0 .. DB_SIZE - 1
    /\ \A v \in EachVariant : debounce_table_index(v) \in DOMAIN debounce_table
    /\ \A v, w \in EachVariant :
          v.type # w.type => debounce_table_index(v) # debounce_table_index(w)

\* The step has put an event, raw or returned by the handler, through the
\* debounce check: event' is that event.
Checks ==
    \/ op' = "Event::wait" /\ outcome' \notin RetrievalErrors
    \/ op' = "callback" /\ arg' # NoEvent

\* What a step does to the table: nothing unless it checks an event; an
\* accepted event's slot holds the current time and the other slots are as
\* they were; a dropped event leaves every slot as it was.
SlotStep ==
    IF ~Checks THEN debounce_table' = debounce_table
    ELSE IF outcome' = "debounced" THEN debounce_table' = debounce_table
    ELSE /\ debounce_table'[debounce_table_index(event')] = now
         /\ \A i \in 0 .. DB_SIZE - 1 :
               i # debounce_table_index(event') =>
                   debounce_table'[i] = debounce_table[i]

\* C39: the debounce check of an event of variant V reads and writes only
\* V's slot of the table: an accepted event sets exactly that slot to the
\* current time and leaves the other eight unchanged, a dropped event leaves
\* the whole table unchanged, and distinct variants have distinct slots
\* within the table's bounds.
C39_OwnSlotOnly == [](SlotsDistinct) /\ [][SlotStep]_vars

\* C39's case: a Redraw was dropped while other slots had been written
\* since: the Redraw slot still holds an instant older than the slot of a
\* variant accepted after it.
C39_Witness ==
    /\ event = Redraw
    /\ outcome = "debounced"
    /\ debounce_table[debounce_table_index(Redraw)] < now
    /\ \E i \in 0 .. DB_SIZE - 1 :
          /\ i # debounce_table_index(Redraw)
          /\ debounce_table[i] > debounce_table[debounce_table_index(Redraw)]


------------------------------------------------------------------------------
(* SpecRelease: the event loop with notifications the translator has no   *)
(* arm for, and a handler that returns KeyRelease or StopEventLoop.        *)

ReleaseXEvents ==
    XEvents \cup {[x |-> "XinputRawKeyRelease", detail |-> ARROW_UP],
                  [x |-> "Expose"]}

ReleaseFollowUps == {KeyRelease("ArrowUp"), StopEventLoop}

NextRelease ==
    \/ Start(NoFailure)
    \/ \E x \in ReleaseXEvents, a \in {ParentId, OtherId} : Wait(x, a, NoFailure)
    \/ \E r \in ReleaseFollowUps \cup {NoEvent} : Callback(r, NoFailure)
    \/ Tick(DebounceRedraw)

SpecRelease == Init /\ [][NextRelease]_vars

\* The variants the translator builds.
TranslatedVariants ==
    {"ParentResize", "MousePress", "MouseMotion", "KeyPress", "Redraw",
     "Nothing", "Unkown"}

\* The step just taken translated a raw notification: event is the
\* translator's result.
RawTranslated == op = "Event::wait" /\ chain = 0 /\ outcome \notin RetrievalErrors

\* C40: no raw notification is translated to KeyRelease or StopEventLoop:
\* the translator's result is one of ParentResize, MousePress, MouseMotion,
\* KeyPress, Redraw, Nothing and Unkown, and a KeyRelease or a StopEventLoop
\* is processed, or given to the handler, only as the follow-up the handler
\* has just returned.
C40_NoRawReleaseOrStop ==
    /\ RawTranslated => event.type \in TranslatedVariants
    /\ pc # "waiting" /\ event.type \in {"KeyRelease", "StopEventLoop"} =>
          /\ op = "callback"
          /\ arg = event
          /\ chain > 0

\* C40's case: a raw key release was retrieved and has reached the handler,
\* as Unkown.
C40_Witness ==
    /\ RawTranslated
    /\ arg[1].x = "XinputRawKeyRelease"
    /\ pc = "callback"
    /\ event = Unkown

====
